---- MODULE Spec2Model ----
(***************************************************************************)
(* Brand Collection Engine of ad-reference:                                *)
(*   - the ad store (platforms/scrape_worker.py, upsert_ads_batch over the *)
(*     ads table of migrate.py),                                           *)
(*   - the collection orchestrator (platforms/batch_collector.py),         *)
(*   - the Google Transparency domain scraper and the Meta scraper         *)
(*     (platforms/google_scraper.py, platforms/meta_scraper.py).           *)
(*                                                                         *)
(*   - the scheduler daemon (platforms/scheduler.py).                      *)
(*                                                                         *)
(* The specifications share the variables:                                 *)
(*   SpecStore   sequences of upsert_ads_batch calls on the ads table      *)
(*   SpecRun     run_daily_batch over its targets and the batch_runs row   *)
(*   SpecAdmin   SpecRun with brands switched on and off through the API   *)
(*   SpecScrape  scrape_source for google/domain and meta targets          *)
(*   SpecSched   the daemon: cron ticks, the two jobs, signals, exit       *)
(*   SpecScroll  the scroll loop of scrape_google_ads_by_domain            *)
(*   SpecVariant variant_to_platform_ad over creative variants             *)
(*   SpecCallback the on_batch callback of scrape_source                   *)
(*   SpecApi     POST /admin/batch/run and its background task             *)
(*   SpecSearch  search_google_ads and its response cache                  *)
(*   SpecRace    two upsert_ads_batch calls in concurrent transactions     *)
(***************************************************************************)
EXTENDS Integers, Sequences, FiniteSets, TLC

VARIABLES
    ads,                \* the ads table: rows in insertion order
    activity_logs,      \* the activity_logs table: event_subtype of each row
    daily_brand_stats,  \* the daily_brand_stats table (one stat_date)
    now,                \* NOW() of the next transaction
    fed,                \* SpecStore: number of ad values drawn so far
    lastBatch,          \* SpecStore: arguments of the latest upsert_ads_batch call
    lastBrand,
    call1,              \* SpecStore: outcome of the first call with lastBatch
    call2,              \* SpecStore: outcome of the immediate second call, or NONE
    brands,             \* the brands table
    brand_sources,      \* the brand_sources table
    monitored_domains,  \* the monitored_domains table, in created_at order
    batch_runs,         \* the batch_runs table; a run's id is its index
    runs,               \* SpecRun: run_daily_batch calls made so far
    req,                \* SpecRun: arguments of the latest run_daily_batch call
    pc,                 \* SpecRun: where the current run_daily_batch call stands
    run,                \* SpecRun: locals of the current run_daily_batch call
    outcomes,           \* SpecRun: what happened at each target of the latest run
    scraperCalls,       \* SpecRun: scraper functions invoked so far
    summary,            \* SpecRun: what the latest run_daily_batch call returned
    listing,            \* SpecScrape: the anchors of the Google listing page
    pages,              \* SpecScrape: what the detail page of each creative link shows
    metaFeed,           \* SpecScrape: the raw ads extract_ads finds on the Meta page
    scrapes,            \* SpecScrape: scrape_source calls made so far
    sc,                 \* SpecScrape: locals of the scrape_source call under way
    last,               \* SpecScrape: account of the latest scrape_source call that ended
    prev,               \* SpecScrape: account of the one before it
    resolved,           \* SpecScrape: landing candidates of the ads the Google scraper built
    proc,               \* SpecSched: the daemon process and the runs a signal found running
    jobs,               \* SpecSched: per job id, its executor count and the locals of its instance
    ticks,              \* SpecSched: per job id, the trigger firings and the runs submitted
    scroll,             \* SpecScroll: locals of the listing scroll loop and what it observed
    conv,               \* SpecVariant: a variant and the ad variant_to_platform_ad made of it
    batch_jobs,         \* SpecApi: the _batch_jobs dictionary of api.py and its worker threads
    sessions,           \* SpecRace: the transactions of two concurrent upsert_ads_batch calls
    cache,              \* SpecSearch: the _cache dictionary of platforms/google.py and the calls made
    cb                  \* SpecCallback: the latest call of scrape_source's on_batch

storeVars == <<fed, lastBatch, lastBrand, call1, call2>>
configVars == <<brands, brand_sources, monitored_domains>>
runVars == <<batch_runs, runs, req, pc, run, outcomes, scraperCalls, summary>>
scrapeVars == <<listing, pages, metaFeed, scrapes, sc, last, prev, resolved>>
schedVars == <<proc, jobs, ticks>>
extraVars == <<scroll, conv, batch_jobs, sessions, cache, cb>>
coreVars == <<ads, activity_logs, daily_brand_stats, now, storeVars, configVars, runVars,
              scrapeVars, schedVars>>
vars == <<ads, activity_logs, daily_brand_stats, now, storeVars, configVars, runVars,
          scrapeVars, schedVars, extraVars>>

NULL == "NULL"
\* text values that the scrapers take apart (URLs, domains) are sequences of
\* tokens; <<>> is the empty string and NullText is None / SQL NULL
NullText == <<NULL>>
NoRequest == [trigger_type |-> "none", domain |-> <<>>, dry_run |-> FALSE, mode |-> "none"]
NoRun == [run_id |-> 0, branch |-> "none", mode |-> "none", targets |-> <<>>, idx |-> 0,
          total_scraped |-> 0, total_new |-> 0, total_updated |-> 0,
          domain_results |-> <<>>, errors |-> <<>>]
NoSummary == [mode |-> "none"]
NoScrape == [pc |-> "idle"]
NoAccount == [platform |-> "none"]
NoProc == [state |-> "off", interrupted |-> {}]
NoJob == [pc |-> "idle", instances |-> 0, started |-> 0, ended |-> "none", run_id |-> 0,
          branch |-> "none", mode |-> "none", targets |-> <<>>, idx |-> 0,
          total_scraped |-> 0, total_new |-> 0, total_updated |-> 0,
          domain_results |-> <<>>, errors |-> <<>>]
JobKinds == {"incremental", "full"}
NoTicks == [fired |-> 0, submitted |-> 0]
NoScroll == [pc |-> "off"]
NoConv == [pc |-> "off"]
NoBatchJobs == [pc |-> "off"]
NoSessions == [pc |-> "off"]
NoCache == [pc |-> "off"]
NoCb == [pc |-> "off"]
NONE == [status |-> "none", new |-> 0, updated |-> 0, total |-> 0,
         rows_before |-> 0, rows |-> 0, attempt |-> 0]

(***************************************************************************)
(* Bounds of the model.                                                    *)
(***************************************************************************)
MaxAds == 2          \* SpecStore: ad values drawn over a behaviour
MaxRuns == 2         \* SpecRun: run_daily_batch calls over a behaviour
TicksPerDay == 3     \* transactions before CURRENT_DATE moves on

(***************************************************************************)
(* Small helpers.                                                          *)
(***************************************************************************)
RECURSIVE SeqsUpTo(_, _)
SeqsUpTo(S, n) ==
    IF n = 0 THEN {<<>>}
    ELSE LET shorter == SeqsUpTo(S, n - 1)
         IN  shorter \cup {Append(s, x) : s \in {t \in shorter : Len(t) = n - 1}, x \in S}

Truthy(v) == v # NULL /\ v # ""

(***************************************************************************)
(* The ads table (migrate.py) and upsert_ads_batch (scrape_worker.py).     *)
(***************************************************************************)
\* brands.id values that exist; ads.brand_id REFERENCES brands(id)
ExistingBrands == {"b1", "b2"}

\* SET x = EXCLUDED.x where the statement says COALESCE(EXCLUDED.x, ads.x)
CoalesceOverwrites(incoming, stored) == incoming

\* COALESCE(EXCLUDED.x, ads.x)
Coalesce(incoming, stored) == IF incoming # NULL THEN incoming ELSE stored

\* effective_brand_id = brand_id or ad.brand_id
EffectiveBrandId(brand_id, ad) == IF Truthy(brand_id) THEN brand_id ELSE ad.brand_id

\* a table without the UNIQUE(source_id, platform) constraint: nothing conflicts
ConflictRowsNoConstraint(tbl, ad) == {}

\* rows an INSERT of this ad conflicts with: UNIQUE(source_id, platform)
ConflictRows(tbl, ad) ==
    {i \in DOMAIN tbl : tbl[i].source_id = ad.source_id /\ tbl[i].platform = ad.platform}

\* the row INSERT INTO ads ... VALUES (...) creates
InsertedRow(ad, brand, t) ==
    [source_id |-> ad.source_id, platform |-> ad.platform,
     creative_id |-> ad.creative_id, brand_id |-> brand,
     landing_page_url |-> ad.landing_page_url, domain |-> ad.domain,
     created_at |-> t, updated_at |-> t, saved_at |-> t]

\* ON CONFLICT (source_id, platform) DO UPDATE SET ...
UpdatedRow(row, ad, brand, t) ==
    [row EXCEPT !.landing_page_url = ad.landing_page_url,
                !.domain = ad.domain,
                !.creative_id = Coalesce(ad.creative_id, row.creative_id),
                !.brand_id = Coalesce(brand, row.brand_id),
                !.updated_at = t,
                !.saved_at = t]

\* the foreign key on ads.brand_id rejects the statement
RowRejected(brand) == brand # NULL /\ brand \notin ExistingBrands

\* the statement with RETURNING reporting every row as inserted
UpsertRowReportsNew(tbl, ad, brand_id, t) ==
    LET brand == EffectiveBrandId(brand_id, ad)
        hits  == ConflictRows(tbl, ad)
    IN  IF RowRejected(brand)
        THEN [tbl |-> tbl, raised |-> TRUE, is_new |-> FALSE]
        ELSE IF hits = {}
        THEN [tbl |-> Append(tbl, InsertedRow(ad, brand, t)),
              raised |-> FALSE, is_new |-> TRUE]
        ELSE [tbl |-> [i \in DOMAIN tbl |->
                         IF i \in hits THEN UpdatedRow(tbl[i], ad, brand, t) ELSE tbl[i]],
              raised |-> FALSE, is_new |-> TRUE]

\* one cur.execute of the INSERT ... ON CONFLICT ... RETURNING (xmax = 0)
UpsertRow(tbl, ad, brand_id, t) ==
    LET brand == EffectiveBrandId(brand_id, ad)
        hits  == ConflictRows(tbl, ad)
    IN  IF RowRejected(brand)
        THEN [tbl |-> tbl, raised |-> TRUE, is_new |-> FALSE]
        ELSE IF hits = {}
        THEN [tbl |-> Append(tbl, InsertedRow(ad, brand, t)),
              raised |-> FALSE, is_new |-> TRUE]
        ELSE [tbl |-> [i \in DOMAIN tbl |->
                         IF i \in hits THEN UpdatedRow(tbl[i], ad, brand, t) ELSE tbl[i]],
              raised |-> FALSE, is_new |-> FALSE]

\* the for-loop of upsert_ads_batch inside one transaction
RECURSIVE UpsertLoop(_, _, _, _, _, _)
\* the loop after the statement for its first remaining ad returned r
UpsertLoopAfter(r, rest, brand_id, t, new, updated) ==
    IF r.raised
    THEN [tbl |-> r.tbl, raised |-> TRUE, new |-> new, updated |-> updated]
    ELSE UpsertLoop(r.tbl, rest, brand_id, t,
                    IF r.is_new THEN new + 1 ELSE new,
                    IF r.is_new THEN updated ELSE updated + 1)

UpsertLoop(tbl, batch, brand_id, t, new, updated) ==
    IF batch = <<>>
    THEN [tbl |-> tbl, raised |-> FALSE, new |-> new, updated |-> updated]
    ELSE UpsertLoopAfter(UpsertRow(tbl, Head(batch), brand_id, t), Tail(batch),
                         brand_id, t, new, updated)

\* get_db: conn.commit() when the block ends, conn.rollback() when it raises
\* (or when the connection is dropped before the commit)
GetDbExit(before, after, committed) == IF committed THEN after ELSE before

\* upsert_ads_batch: one transaction for the whole batch; an error is re-raised
\* the end of upsert_ads_batch once its loop has ended as r: commit, counts
\* and the new_ads_found activity log, or rollback and re-raise
UpsertAdsBatchEnd(tbl, r) ==
    IF r.raised
    THEN [tbl |-> GetDbExit(tbl, r.tbl, FALSE), raised |-> TRUE,
          new |-> 0, updated |-> 0, total |-> 0, logs |-> <<>>]
    ELSE [tbl |-> GetDbExit(tbl, r.tbl, TRUE), raised |-> FALSE,
          new |-> r.new, updated |-> r.updated, total |-> r.new + r.updated,
          logs |-> IF r.new > 0 THEN <<"new_ads_found">> ELSE <<>>]

UpsertAdsBatch(tbl, batch, brand_id, t) ==
    IF batch = <<>>
    THEN [tbl |-> tbl, raised |-> FALSE, new |-> 0, updated |-> 0, total |-> 0,
          logs |-> <<>>]
    ELSE UpsertAdsBatchEnd(tbl, UpsertLoop(tbl, batch, brand_id, t, 0, 0))

(***************************************************************************)
(* SpecStore: upsert_ads_batch called with arbitrary batches, each batch   *)
(* optionally called a second time right after the first.                 *)
(***************************************************************************)
\* the (source_id, platform) of the ads drawn; "" is the empty source_id
StoreKeys == {<<"s1", "google">>, <<"s1", "meta">>, <<"", "google">>}

\* (creative_id, brand_id) of the ads drawn; brand b9 is no row of brands
StoreAttrs == {<<NULL, NULL>>, <<"CR1", "b1">>, <<NULL, "b9">>}

StoreAds ==
    {[source_id |-> k[1], platform |-> k[2], creative_id |-> a[1], brand_id |-> a[2],
      landing_page_url |-> NullText, domain |-> <<>>] :
        k \in StoreKeys, a \in StoreAttrs}

StoreBrandArgs == {NULL, "b2"}

\* NOW() advances from one transaction to the next; an empty batch opens none
Tick(batch) == IF batch = <<>> THEN now ELSE now + 1

Outcome(r, rowsBefore, attempt) ==
    [status |-> IF r.raised THEN "raised" ELSE "ok",
     new |-> r.new, updated |-> r.updated, total |-> r.total,
     rows_before |-> rowsBefore, rows |-> Len(r.tbl), attempt |-> attempt]

\* the variables of the other specifications, at rest
RunAtRest ==
    /\ batch_runs = <<>>
    /\ runs = 0
    /\ req = NoRequest
    /\ pc = "idle"
    /\ run = NoRun
    /\ outcomes = <<>>
    /\ scraperCalls = 0
    /\ summary = NoSummary

ScrapeAtRest ==
    /\ listing = <<>>
    /\ pages = <<>>
    /\ metaFeed = <<>>
    /\ scrapes = 0
    /\ sc = NoScrape
    /\ last = NoAccount
    /\ prev = NoAccount
    /\ resolved = {}

ConfigEmpty ==
    /\ brands = {}
    /\ brand_sources = <<>>
    /\ monitored_domains = <<>>

SchedAtRest ==
    /\ proc = NoProc
    /\ jobs = [k \in JobKinds |-> NoJob]
    /\ ticks = [k \in JobKinds |-> NoTicks]

ExtraAtRest ==
    /\ scroll = NoScroll
    /\ conv = NoConv
    /\ batch_jobs = NoBatchJobs
    /\ sessions = NoSessions
    /\ cache = NoCache
    /\ cb = NoCb

\* the tables empty and no call of the other specifications under way
CoreAtRest ==
    /\ ads = <<>>
    /\ activity_logs = <<>>
    /\ daily_brand_stats = <<>>
    /\ now = 1
    /\ fed = 0 /\ lastBatch = <<>> /\ lastBrand = NULL /\ call1 = NONE /\ call2 = NONE
    /\ ConfigEmpty
    /\ RunAtRest
    /\ ScrapeAtRest
    /\ SchedAtRest

InitStore ==
    /\ ExtraAtRest
    /\ SchedAtRest
    /\ ads = <<>>
    /\ activity_logs = <<>>
    /\ daily_brand_stats = <<>>
    /\ now = 1
    /\ ConfigEmpty
    /\ RunAtRest
    /\ ScrapeAtRest
    /\ fed = 0
    /\ lastBatch = <<>>
    /\ lastBrand = NULL
    /\ call1 = NONE
    /\ call2 = NONE

\* a call of upsert_ads_batch(batch, brand_id) that runs to its end
Upsert ==
    \E batch \in SeqsUpTo(StoreAds, MaxAds - fed), brand_id \in StoreBrandArgs :
        LET r == UpsertAdsBatch(ads, batch, brand_id, now)
        IN  /\ ads' = r.tbl
            /\ activity_logs' = activity_logs \o r.logs
            /\ now' = Tick(batch)
            /\ fed' = fed + Len(batch)
            /\ lastBatch' = batch
            /\ lastBrand' = brand_id
            /\ call1' = Outcome(r, Len(ads), 1)
            /\ call2' = NONE
            /\ UNCHANGED <<daily_brand_stats, configVars, runVars, scrapeVars, schedVars, extraVars>>

\* the same call made again right after the first one ended
UpsertAgain ==
    /\ call1.status \in {"ok", "raised"}
    /\ call2 = NONE
    /\ LET r == UpsertAdsBatch(ads, lastBatch, lastBrand, now)
       IN  /\ ads' = r.tbl
           /\ activity_logs' = activity_logs \o r.logs
           /\ now' = Tick(lastBatch)
           /\ call2' = Outcome(r, Len(ads), call1.attempt)
    /\ UNCHANGED <<fed, lastBatch, lastBrand, call1>>
    /\ UNCHANGED <<daily_brand_stats, configVars, runVars, scrapeVars, schedVars, extraVars>>

\* the process is killed inside the transaction, after k rows were executed:
\* the connection is dropped without a commit
UpsertKilled ==
    \E batch \in SeqsUpTo(StoreAds, MaxAds - fed) \ {<<>>}, brand_id \in StoreBrandArgs :
        \E k \in 0..Len(batch) :
            LET part == UpsertLoop(ads, SubSeq(batch, 1, k), brand_id, now, 0, 0)
            IN  /\ ~part.raised
                /\ ads' = GetDbExit(ads, part.tbl, FALSE)
                /\ now' = now + 1
                /\ fed' = fed + Len(batch)
                /\ lastBatch' = batch
                /\ lastBrand' = brand_id
                /\ call1' = [status |-> "killed", new |-> 0, updated |-> 0, total |-> 0,
                             rows_before |-> Len(ads), rows |-> Len(ads'), attempt |-> 1]
                /\ call2' = NONE
                /\ UNCHANGED <<activity_logs, daily_brand_stats, configVars, runVars, scrapeVars, schedVars, extraVars>>

\* the run is started again on what the killed one was given
UpsertRerun ==
    /\ call1.status = "killed"
    /\ LET r == UpsertAdsBatch(ads, lastBatch, lastBrand, now)
       IN  /\ ads' = r.tbl
           /\ activity_logs' = activity_logs \o r.logs
           /\ now' = now + 1
           /\ call1' = Outcome(r, Len(ads), 2)
    /\ call2' = NONE
    /\ UNCHANGED <<fed, lastBatch, lastBrand>>
    /\ UNCHANGED <<daily_brand_stats, configVars, runVars, scrapeVars, schedVars, extraVars>>

NextStore == Upsert \/ UpsertAgain \/ UpsertKilled \/ UpsertRerun

SpecStore == InitStore /\ [][NextStore]_vars

(***************************************************************************)
(* Claims on the ad store, checked under SpecStore.                        *)
(***************************************************************************)
SameKey(a, b) == a.source_id = b.source_id /\ a.platform = b.platform

\* C1: upsert_ads_batch(A) called twice in a row: the second call leaves the
\* number of ads rows as the first left it and returns new = 0, updated = |A|.
C1_IdempotentUpsert ==
    (call1.status = "ok" /\ call2.status = "ok") =>
        /\ call2.rows = call1.rows
        /\ call2.new = 0
        /\ call2.updated = Len(lastBatch)

\* C1 witness: a batch of two ads with the same key on a store, called twice
C1_Witness ==
    /\ call1.status = "ok" /\ call2.status = "ok"
    /\ Len(lastBatch) = 2
    /\ call1.new = 1 /\ call1.updated = 1
    /\ call2.updated = 2

\* C2: after any sequence of upsert_ads_batch calls, killed and re-run ones
\* included, no two rows of ads share the same (source_id, platform).
C2_UniqueKey ==
    \A i \in DOMAIN ads : \A j \in DOMAIN ads :
        i # j => ~SameKey(ads[i], ads[j])

\* C2 witness: a killed call was run again and hit a row stored before the kill
C2_Witness ==
    /\ call1.attempt = 2 /\ call1.status = "ok"
    /\ call1.rows_before = 1 /\ call1.updated = 1
    /\ Len(ads) = 1

\* the ads of the latest call that collide with stored row i
Incoming(i) == {j \in DOMAIN lastBatch' : SameKey(lastBatch'[j], ads[i])}

\* C3: a collision never changes created_at, and creative_id and brand_id keep
\* their stored non-null value when the incoming value is null (a stored
\* non-null value never becomes null).
C3_CollisionKeeps ==
    [][\A i \in DOMAIN ads :
          /\ i \in DOMAIN ads'
          /\ ads'[i].created_at = ads[i].created_at
          /\ ads[i].creative_id # NULL => ads'[i].creative_id # NULL
          /\ ads[i].brand_id # NULL => ads'[i].brand_id # NULL
          /\ (\A j \in Incoming(i) : lastBatch'[j].creative_id = NULL)
                => ads'[i].creative_id = ads[i].creative_id
          /\ (\A j \in Incoming(i) : EffectiveBrandId(lastBrand', lastBatch'[j]) = NULL)
                => ads'[i].brand_id = ads[i].brand_id]_vars

\* C3 witness: a stored row with creative_id and brand_id was hit by an ad
\* carrying neither, and is still as it was created
C3_Witness ==
    /\ call1.status = "ok" /\ call1.updated = 1 /\ lastBrand = NULL
    /\ \E i \in DOMAIN ads :
          /\ ads[i].creative_id = "CR1" /\ ads[i].brand_id = "b1"
          /\ ads[i].updated_at > ads[i].created_at
          /\ \E j \in DOMAIN lastBatch :
                /\ SameKey(lastBatch[j], ads[i])
                /\ lastBatch[j].creative_id = NULL /\ lastBatch[j].brand_id = NULL

\* the first ad of the batch whose statement the foreign key rejects
FirstRejected(batch, brand_id) ==
    CHOOSE j \in DOMAIN batch :
        /\ RowRejected(EffectiveBrandId(brand_id, batch[j]))
        /\ \A k \in 1..(j - 1) : ~RowRejected(EffectiveBrandId(brand_id, batch[k]))

\* a call of upsert_ads_batch on ads that all carry a source_id ends in this
\* step with a failed row
FailedCall ==
    /\ fed' > fed
    /\ call1'.status = "raised"
    /\ \A j \in DOMAIN lastBatch' : lastBatch'[j].source_id # ""

\* C15: when the upsert of one row of a batch fails, the rows of the batch
\* upserted before it stay persisted and the counts reflect them:
\* upsert_ads_batch is atomic per row, not per batch.
C15_RowsBeforeFailureKept ==
    [][FailedCall =>
          /\ ads' = UpsertLoop(ads, SubSeq(lastBatch', 1, FirstRejected(lastBatch', lastBrand') - 1),
                               lastBrand', now, 0, 0).tbl
          /\ call1'.new + call1'.updated = FirstRejected(lastBatch', lastBrand') - 1]_vars

\* what C15 comes to in the code: the batch is one transaction, a failed row
\* rolls back every row of the batch and the call raises without counts.
C15_BatchRolledBack ==
    [][FailedCall => (ads' = ads /\ call1'.new = 0 /\ call1'.updated = 0)]_vars

\* a failed call whose first row was a valid new ad
C15_Witness ==
    /\ call1.status = "raised"
    /\ Len(lastBatch) = 2
    /\ FirstRejected(lastBatch, lastBrand) = 2
    /\ lastBatch[1].source_id # ""
    /\ \A i \in DOMAIN ads : ~SameKey(ads[i], lastBatch[1])

\* ads of the latest batch that carry a source_id
WithSourceId(batch) == {j \in DOMAIN batch : batch[j].source_id # ""}

\* C16: an ad with an empty source_id passed to upsert_ads_batch is not
\* stored and is counted neither as new nor as updated, while the other ads
\* of the batch are upserted normally.
C16_EmptySourceIdRejected ==
    /\ \A i \in DOMAIN ads : ads[i].source_id # ""
    /\ (call1.status = "ok" /\ call2 = NONE) =>
          /\ call1.total = Cardinality(WithSourceId(lastBatch))
          /\ \A j \in WithSourceId(lastBatch) :
                \E i \in DOMAIN ads : SameKey(ads[i], lastBatch[j])

\* ---------------------------------------------------------------------------
\* The orchestrator: run_daily_batch and what it calls
\* ---------------------------------------------------------------------------

\* collation order of the brand and platform names in use
Alphabet == <<"acme", "google", "meta", "tiktok", "zeta">>
Rank(s) == CHOOSE i \in DOMAIN Alphabet : Alphabet[i] = s

Range(q) == {q[i] : i \in DOMAIN q}

\* ORDER BY b.brand_name, bs.platform
OrderKeyLeq(a, b) ==
    \/ Rank(a.brand_name) < Rank(b.brand_name)
    \/ a.brand_name = b.brand_name /\ Rank(a.platform) <= Rank(b.platform)

\* the JOIN without its WHERE bs.is_active = TRUE AND b.is_active = TRUE
JoinedSourcesUnfiltered(bt, st) ==
    {[source_id |-> p[1].id, brand_id |-> p[1].brand_id, brand_name |-> p[2].brand_name,
      platform |-> p[1].platform, source_type |-> p[1].source_type,
      source_value |-> p[1].source_value] :
        p \in {q \in Range(st) \X bt : q[2].id = q[1].brand_id}}

\* the rows of brand_sources JOIN brands with both is_active
JoinedSources(bt, st) ==
    {[source_id |-> p[1].id, brand_id |-> p[1].brand_id, brand_name |-> p[2].brand_name,
      platform |-> p[1].platform, source_type |-> p[1].source_type,
      source_value |-> p[1].source_value] :
        p \in {q \in Range(st) \X bt :
                 q[2].id = q[1].brand_id /\ q[1].is_active /\ q[2].is_active}}

\* every list get_active_brand_sources can return: rows that tie on the
\* ORDER BY key come in any order
GetActiveBrandSources(bt, st) ==
    LET rows == JoinedSources(bt, st)
        n == Cardinality(rows)
    IN  {q \in [1..n -> rows] :
            \A i, j \in 1..n : i < j => q[i] # q[j] /\ OrderKeyLeq(q[i], q[j])}

\* get_active_domains: the active rows in created_at order
GetActiveDomains(md) == SelectSeq(md, LAMBDA d : d.is_active)

BrandRows ==
    {[id |-> "b1", brand_name |-> "acme", is_active |-> TRUE],
     [id |-> "b2", brand_name |-> "zeta", is_active |-> TRUE]}
SourceRows ==
    <<[id |-> "src1", brand_id |-> "b1", platform |-> "google", source_type |-> "domain",
       source_value |-> <<"acme.", "com">>, is_active |-> TRUE],
      [id |-> "src2", brand_id |-> "b1", platform |-> "meta", source_type |-> "page_id",
       source_value |-> <<"12345">>, is_active |-> TRUE],
      [id |-> "src3", brand_id |-> "b2", platform |-> "tiktok", source_type |-> "keyword",
       source_value |-> <<"zeta">>, is_active |-> TRUE]>>
InactiveSourceRows ==
    <<[id |-> "src3", brand_id |-> "b2", platform |-> "tiktok", source_type |-> "keyword",
       source_value |-> <<"zeta">>, is_active |-> FALSE]>>
\* a brand with two active sources on the same platform: UNIQUE(brand_id,
\* platform, source_value) allows it
TiedSourceRows ==
    <<[id |-> "src3", brand_id |-> "b2", platform |-> "tiktok", source_type |-> "keyword",
       source_value |-> <<"zeta">>, is_active |-> TRUE],
      [id |-> "src4", brand_id |-> "b2", platform |-> "tiktok", source_type |-> "keyword",
       source_value |-> <<"zeta", "shop">>, is_active |-> TRUE]>>
DomainRows ==
    <<[domain |-> <<"old.", "com">>, is_active |-> TRUE],
      [domain |-> <<"off.", "com">>, is_active |-> FALSE],
      [domain |-> <<"www.", "more.", "com">>, is_active |-> TRUE]>>

\* the configurations a behaviour starts from: brand sources, only legacy
\* monitored domains, nothing at all
Configs ==
    {[brands |-> BrandRows, brand_sources |-> SourceRows, monitored_domains |-> DomainRows],
     [brands |-> BrandRows, brand_sources |-> InactiveSourceRows, monitored_domains |-> DomainRows],
     [brands |-> BrandRows, brand_sources |-> TiedSourceRows, monitored_domains |-> <<>>],
     [brands |-> {}, brand_sources |-> <<>>, monitored_domains |-> <<>>]}

\* the calls made by the scheduler jobs, the API and the command line
Requests ==
    UNION {{[trigger_type |-> "manual", domain |-> <<>>, dry_run |-> d, mode |-> "full"],
            [trigger_type |-> "scheduled_incremental", domain |-> <<>>, dry_run |-> d,
             mode |-> "incremental"],
            [trigger_type |-> "manual", domain |-> <<"solo.", "com">>, dry_run |-> d,
             mode |-> "auto"]} : d \in BOOLEAN}

ResolveMode(mode, sunday) ==
    IF mode = "auto" THEN (IF sunday THEN "full" ELSE "incremental") ELSE mode

Branch(domain, sources) ==
    IF domain # <<>> THEN "single" ELSE IF sources # <<>> THEN "brand" ELSE "legacy"

\* the targets of a call: brand source rows, or monitored-domain values
Targets(branch, domain, sources, md) ==
    CASE branch = "single" -> <<[domain |-> domain]>>
      [] branch = "brand" -> sources
      [] OTHER -> [i \in DOMAIN GetActiveDomains(md) |-> [domain |-> GetActiveDomains(md)[i].domain]]

Label(branch, target) ==
    IF branch = "brand"
    THEN <<target.brand_name, target.platform, target.source_value>>
    ELSE target.domain

Labels(branch, targets) == [i \in DOMAIN targets |-> Label(branch, targets[i])]

\* the object a dry run returns
Plan(branch, trigger_type, targets) ==
    [mode |-> "dry_run", trigger_type |-> trigger_type, branch |-> branch,
     total |-> Len(targets), listed |-> Labels(branch, targets)]

ReturnsPlanBrandOnly(branch, dry_run) == dry_run /\ branch = "brand"

\* "if dry_run: return {...}" of the branch taken
ReturnsPlan(branch, dry_run) == dry_run

CreateBatchRunRowCompleted(trigger_type, t) ==
    [started_at |-> t, status |-> "completed", trigger_type |-> trigger_type,
     finished_at |-> 0, total_domains |-> 0, total_ads_scraped |-> 0,
     total_ads_new |-> 0, total_ads_updated |-> 0,
     domain_results |-> <<>>, errors |-> <<>>]

\* the row create_batch_run inserts; the other columns take their defaults
CreateBatchRunRow(trigger_type, t) ==
    [started_at |-> t, status |-> "running", trigger_type |-> trigger_type,
     finished_at |-> 0, total_domains |-> 0, total_ads_scraped |-> 0,
     total_ads_new |-> 0, total_ads_updated |-> 0,
     domain_results |-> <<>>, errors |-> <<>>]

\* update_batch_run: the columns named in kwargs are written, the others kept
UpdateBatchRun(tbl, run_id, kwargs) ==
    [tbl EXCEPT ![run_id] =
        [f \in DOMAIN tbl[run_id] |-> IF f \in DOMAIN kwargs THEN kwargs[f] ELSE tbl[run_id][f]]]

\* assignment d[key] = val of a dict, which keeps insertion order
DictSet(d, key, val) ==
    IF \E i \in DOMAIN d : d[i].key = key
    THEN [i \in DOMAIN d |-> IF d[i].key = key THEN [key |-> key, val |-> val] ELSE d[i]]
    ELSE Append(d, [key |-> key, val |-> val])

DictGet(d, key) == d[CHOOSE i \in DOMAIN d : d[i].key = key].val

\* which scraper scrape_source dispatches to
Scraper(platform, source_type) ==
    CASE platform = "google" /\ source_type = "domain" -> "scrape_google_ads_by_domain"
      [] platform = "meta" /\ source_type = "page_id" -> "scrape_meta_ads_by_page_id"
      [] platform = "meta" /\ source_type = "keyword" -> "scrape_meta_ads"
      [] OTHER -> "none"

CreativeOf(sid) == IF sid = "s1" THEN "CR1" ELSE "CR2"

\* an ad as a scraper hands it over
RunAd(sid, platform) ==
    [source_id |-> sid, platform |-> platform,
     creative_id |-> IF platform = "google" THEN CreativeOf(sid) ELSE NULL,
     brand_id |-> NULL, landing_page_url |-> NullText, domain |-> <<>>]

\* what one scraper invocation does, seen from its caller: the batches it
\* hands to the callback, and whether it raises afterwards
Emissions(scraper, platform) ==
    CASE scraper = "scrape_google_ads_by_domain" ->
            {[batches |-> <<>>, raised |-> FALSE],
             [batches |-> <<<<RunAd("s1", platform)>>, <<RunAd("s2", platform)>>>>,
              raised |-> FALSE],
             [batches |-> <<>>, raised |-> TRUE],
             [batches |-> <<<<RunAd("s1", platform)>>>>, raised |-> TRUE]}
      [] scraper = "none" -> {[batches |-> <<>>, raised |-> FALSE]}
      [] OTHER ->
            {[batches |-> <<>>, raised |-> FALSE],
             [batches |-> <<<<RunAd("s1", platform)>>>>, raised |-> FALSE],
             [batches |-> <<>>, raised |-> TRUE]}

\* a callback that hands the batch on as the scraper built it
PreparedAsScraped(batch, domain, brand_id, force) == batch

\* the callback's preparation of a batch: empty domain defaulted, brand forced
Prepared(batch, domain, brand_id, force) ==
    [i \in DOMAIN batch |->
        [batch[i] EXCEPT !.domain = IF @ = <<>> THEN domain ELSE @,
                         !.brand_id = IF force THEN brand_id ELSE @]]

\* on_batch of scrape_source (force) and of scrape_domain_fully/_incremental
OnBatch(tbl, batch, domain, brand_id, force, t) ==
    UpsertAdsBatch(tbl, Prepared(batch, domain, brand_id, force),
                   IF force THEN brand_id ELSE NULL, t)

\* the callback applied to the batches of one scraper invocation, in order;
\* an exception of the callback ends the invocation
\* the result counters after one call of the callback returned r
Delivered(st, r, n) ==
    [tbl |-> r.tbl, t |-> st.t + 1, raised |-> r.raised,
     scraped |-> IF r.raised THEN st.scraped ELSE st.scraped + n,
     new |-> st.new + r.new, updated |-> st.updated + r.updated,
     logs |-> st.logs \o r.logs]

RECURSIVE Deliver(_, _, _, _, _)
Deliver(st, batches, domain, brand_id, force) ==
    IF batches = <<>> \/ st.raised THEN st
    ELSE Deliver(Delivered(st, OnBatch(st.tbl, Head(batches), domain, brand_id, force, st.t),
                           Len(Head(batches))),
                 Tail(batches), domain, brand_id, force)

DeliverStart(tbl, t) ==
    [tbl |-> tbl, t |-> t, raised |-> FALSE, scraped |-> 0, new |-> 0, updated |-> 0,
     logs |-> <<>>]

\* CURRENT_DATE of a transaction at time t
Day(t) == ((t - 1) \div TicksPerDay) + 1

\* the statement with SET x = EXCLUDED.x in place of x = daily_brand_stats.x + EXCLUDED.x
RecordDailyStatsReplaces(stats, brand_id, platform, new, updated, scraped, stat_date) ==
    IF \E i \in DOMAIN stats : /\ stats[i].brand_id = brand_id
                               /\ stats[i].stat_date = stat_date
                               /\ stats[i].platform = platform
    THEN [i \in DOMAIN stats |->
            IF /\ stats[i].brand_id = brand_id
               /\ stats[i].stat_date = stat_date
               /\ stats[i].platform = platform
            THEN [stats[i] EXCEPT !.new_count = new, !.updated_count = updated,
                                  !.total_scraped = scraped]
            ELSE stats[i]]
    ELSE Append(stats, [brand_id |-> brand_id, stat_date |-> stat_date, platform |-> platform,
                        new_count |-> new, updated_count |-> updated,
                        total_scraped |-> scraped])

\* record_daily_stats: additive upsert on (brand_id, stat_date, platform),
\* stat_date taking its default CURRENT_DATE
RecordDailyStats(stats, brand_id, platform, new, updated, scraped, stat_date) ==
    IF \E i \in DOMAIN stats : /\ stats[i].brand_id = brand_id
                               /\ stats[i].stat_date = stat_date
                               /\ stats[i].platform = platform
    THEN [i \in DOMAIN stats |->
            IF /\ stats[i].brand_id = brand_id
               /\ stats[i].stat_date = stat_date
               /\ stats[i].platform = platform
            THEN [stats[i] EXCEPT !.new_count = @ + new, !.updated_count = @ + updated,
                                  !.total_scraped = @ + scraped]
            ELSE stats[i]]
    ELSE Append(stats, [brand_id |-> brand_id, stat_date |-> stat_date, platform |-> platform,
                        new_count |-> new, updated_count |-> updated,
                        total_scraped |-> scraped])

BrandSourceScrapeResult(src, scraped, new, updated, error) ==
    [source_id |-> src.source_id, platform |-> src.platform, source_type |-> src.source_type,
     source_value |-> src.source_value, ads_scraped |-> scraped, ads_new |-> new,
     ads_updated |-> updated, error |-> error]

DomainScrapeResult(domain, scraped, new, updated, error) ==
    [domain |-> domain, ads_scraped |-> scraped, ads_new |-> new, ads_updated |-> updated,
     error |-> error]

\* the tail of scrape_source after its scraper ended with d delivered:
\* the new_ads_found log and the daily stats, skipped when it raised
ScrapeSourceEnd(d, scraperRaised, src, stats) ==
    [tbl |-> d.tbl, t |-> d.t, raised |-> d.raised \/ scraperRaised,
     result |-> BrandSourceScrapeResult(src, d.scraped, d.new, d.updated, NULL),
     logs |-> d.logs \o (IF ~(d.raised \/ scraperRaised) /\ d.new > 0
                         THEN <<"new_ads_found">> ELSE <<>>),
     stats |-> IF ~(d.raised \/ scraperRaised) /\ (d.new > 0 \/ d.updated > 0)
               THEN RecordDailyStats(stats, src.brand_id, src.platform,
                                     d.new, d.updated, d.scraped, Day(d.t))
               ELSE stats]

\* scrape_source, given what the scraper it dispatches to does
ScrapeSource(tbl, stats, src, em, t) ==
    ScrapeSourceEnd(Deliver(DeliverStart(tbl, t), em.batches, src.source_value,
                            src.brand_id, TRUE),
                    em.raised, src, stats)

ScrapeDomainEnd(d, scraperRaised, domain) ==
    [tbl |-> d.tbl, t |-> d.t, raised |-> d.raised \/ scraperRaised,
     result |-> DomainScrapeResult(domain, d.scraped, d.new, d.updated, NULL),
     logs |-> d.logs]

\* scrape_domain_fully / scrape_domain_incremental
ScrapeDomain(tbl, domain, em, t) ==
    ScrapeDomainEnd(Deliver(DeliverStart(tbl, t), em.batches, domain, NULL, FALSE),
                    em.raised, domain)

\* the message of the exception a scraper raises
Exc == "TimeoutError: Timeout 60000ms exceeded"

\* an update_batch_run after each target that writes the counters alone
ProgressKwargsTotalsOnly(loc) ==
    [total_ads_scraped |-> loc.total_scraped, total_ads_new |-> loc.total_new,
     total_ads_updated |-> loc.total_updated]

\* the update_batch_run written after each target
ProgressKwargs(loc) ==
    [total_ads_scraped |-> loc.total_scraped, total_ads_new |-> loc.total_new,
     total_ads_updated |-> loc.total_updated,
     domain_results |-> loc.domain_results, errors |-> loc.errors]

FinalStatusFailsOnErrors(errors) == IF errors # <<>> THEN "failed" ELSE "completed"

\* final_status = BatchRunStatus.completed
FinalStatus(errors) == "completed"

AfterTargetResetsOnError(loc, label, s, errResult) ==
    IF s.raised
    THEN [loc EXCEPT !.errors = Append(@, [label |-> label, exc |-> Exc]),
                     !.domain_results = DictSet(@, label, errResult),
                     !.total_scraped = 0,
                     !.idx = @ + 1]
    ELSE [loc EXCEPT !.domain_results = DictSet(@, label, s.result),
                     !.total_scraped = @ + s.result.ads_scraped,
                     !.total_new = @ + s.result.ads_new,
                     !.total_updated = @ + s.result.ads_updated,
                     !.idx = @ + 1]

\* one pass of the loop body over a target: the try, the except, the locals
AfterTarget(loc, label, s, errResult) ==
    IF s.raised
    THEN [loc EXCEPT !.errors = Append(@, [label |-> label, exc |-> Exc]),
                     !.domain_results = DictSet(@, label, errResult),
                     !.idx = @ + 1]
    ELSE [loc EXCEPT !.domain_results = DictSet(@, label, s.result),
                     !.total_scraped = @ + s.result.ads_scraped,
                     !.total_new = @ + s.result.ads_new,
                     !.total_updated = @ + s.result.ads_updated,
                     !.idx = @ + 1]

\* the rest of a loop iteration once the scrape of its target ended as s:
\* the locals, the batch_failed log of the except branch, update_batch_run
IterationEnd(s, label, scraper, errResult) ==
    /\ ads' = s.tbl
    /\ activity_logs' = activity_logs \o s.logs
            \o (IF s.raised THEN <<"batch_failed">> ELSE <<>>)
    /\ run' = AfterTarget(run, label, s, errResult)
    /\ batch_runs' = UpdateBatchRun(batch_runs, run.run_id,
                                    ProgressKwargs(AfterTarget(run, label, s, errResult)))
    /\ now' = s.t + 1
    /\ outcomes' = Append(outcomes, [label |-> label, scraper |-> scraper,
                                     raised |-> s.raised])
    /\ scraperCalls' = scraperCalls + (IF scraper = "none" THEN 0 ELSE 1)

InitRun ==
    /\ ExtraAtRest
    /\ SchedAtRest
    /\ ads = <<>>
    /\ activity_logs = <<>>
    /\ daily_brand_stats = <<>>
    /\ now = 1
    /\ fed = 0 /\ lastBatch = <<>> /\ lastBrand = NULL /\ call1 = NONE /\ call2 = NONE
    /\ \E c \in Configs :
        /\ brands = c.brands
        /\ brand_sources = c.brand_sources
        /\ monitored_domains = c.monitored_domains
    /\ RunAtRest
    /\ ScrapeAtRest

\* run_daily_batch up to the dry-run return or to create_batch_run
RunDailyBatch ==
    /\ pc = "idle"
    /\ runs < MaxRuns
    /\ \E r \in Requests, sunday \in BOOLEAN,
          sources \in GetActiveBrandSources(brands, brand_sources) :
        LET mode == ResolveMode(r.mode, sunday)
            branch == Branch(r.domain, sources)
            targets == Targets(branch, r.domain, sources, monitored_domains)
        IN  /\ r.mode = "auto" \/ sunday      \* the weekday matters to auto only
            /\ req' = r
            /\ runs' = runs + 1
            /\ IF ReturnsPlan(branch, r.dry_run)
               THEN /\ summary' = Plan(branch, r.trigger_type, targets)
                    /\ UNCHANGED <<batch_runs, activity_logs, now, pc, run, outcomes>>
               ELSE /\ batch_runs' = Append(batch_runs, CreateBatchRunRow(r.trigger_type, now))
                    /\ activity_logs' = Append(activity_logs, "batch_started")
                    /\ now' = now + 1
                    /\ pc' = "created"
                    /\ run' = [run_id |-> Len(batch_runs) + 1, branch |-> branch,
                               mode |-> mode, targets |-> targets, idx |-> 1,
                               total_scraped |-> 0, total_new |-> 0, total_updated |-> 0,
                               domain_results |-> <<>>, errors |-> <<>>]
                    /\ outcomes' = <<>>
                    /\ summary' = NoSummary
    /\ UNCHANGED <<ads, daily_brand_stats, scraperCalls, storeVars, configVars, scrapeVars, schedVars, extraVars>>

\* update_batch_run(run_id, total_domains=...)
SetTotalDomains ==
    /\ pc = "created"
    /\ batch_runs' = UpdateBatchRun(batch_runs, run.run_id, [total_domains |-> Len(run.targets)])
    /\ now' = now + 1
    /\ pc' = "targets"
    /\ UNCHANGED <<ads, activity_logs, daily_brand_stats, runs, req, run, outcomes,
                   scraperCalls, summary, storeVars, configVars, scrapeVars, schedVars, extraVars>>

\* one iteration of the loop of _run_brand_sources_batch
BrandSourceIteration ==
    /\ pc = "targets"
    /\ run.branch = "brand"
    /\ run.idx <= Len(run.targets)
    /\ LET src == run.targets[run.idx]
           label == Label("brand", src)
           scraper == Scraper(src.platform, src.source_type)
       IN  \E em \in Emissions(scraper, src.platform) :
             /\ IterationEnd(ScrapeSource(ads, daily_brand_stats, src, em, now), label,
                             scraper, BrandSourceScrapeResult(src, 0, 0, 0, Exc))
             /\ daily_brand_stats' = ScrapeSource(ads, daily_brand_stats, src, em, now).stats
    /\ UNCHANGED <<runs, req, pc, summary, storeVars, configVars, scrapeVars, schedVars, extraVars>>

\* one iteration of the loop of _run_legacy_domains_batch
LegacyDomainIteration ==
    /\ pc = "targets"
    /\ run.branch \in {"single", "legacy"}
    /\ run.idx <= Len(run.targets)
    /\ LET domain == run.targets[run.idx].domain
       IN  \E em \in Emissions("scrape_google_ads_by_domain", "google") :
             IterationEnd(ScrapeDomain(ads, domain, em, now), domain,
                          "scrape_google_ads_by_domain",
                          DomainScrapeResult(domain, 0, 0, 0, Exc))
    /\ UNCHANGED <<daily_brand_stats, runs, req, pc, summary, storeVars, configVars, scrapeVars, schedVars, extraVars>>

\* the end of run_daily_batch: final update, batch_completed log, summary
FinishRun ==
    /\ pc = "targets"
    /\ run.idx > Len(run.targets)
    /\ batch_runs' = UpdateBatchRun(batch_runs, run.run_id,
            [status |-> FinalStatus(run.errors), finished_at |-> now,
             total_ads_scraped |-> run.total_scraped, total_ads_new |-> run.total_new,
             total_ads_updated |-> run.total_updated,
             domain_results |-> run.domain_results, errors |-> run.errors])
    /\ activity_logs' = Append(activity_logs, "batch_completed")
    /\ now' = now + 1
    /\ summary' = [batch_run_id |-> run.run_id, trigger_type |-> req.trigger_type,
                   mode |-> run.mode, status |-> FinalStatus(run.errors),
                   total_sources |-> Len(run.domain_results),
                   total_ads_scraped |-> run.total_scraped, total_ads_new |-> run.total_new,
                   total_ads_updated |-> run.total_updated,
                   domain_results |-> run.domain_results, errors |-> run.errors]
    /\ pc' = "idle"
    /\ UNCHANGED <<ads, daily_brand_stats, runs, req, run, outcomes, scraperCalls,
                   storeVars, configVars, scrapeVars, schedVars, extraVars>>

NextRun ==
    \/ RunDailyBatch
    \/ SetTotalDomains
    \/ BrandSourceIteration
    \/ LegacyDomainIteration
    \/ FinishRun

SpecRun == InitRun /\ [][NextRun]_vars

\* PUT /brands/{brand_id} with is_active in the body: UPDATE brands SET
\* is_active = ... WHERE id = brand_id
ApiUpdateBrand ==
    /\ \E b \in brands, is_active \in BOOLEAN :
         brands' = (brands \ {b}) \cup {[b EXCEPT !.is_active = is_active]}
    /\ UNCHANGED <<ads, activity_logs, daily_brand_stats, now, brand_sources,
                   monitored_domains, storeVars, runVars, scrapeVars, schedVars, extraVars>>

NextAdmin == NextRun \/ ApiUpdateBrand

\* two brands with one source each and no legacy monitored domain
InitAdmin ==
    /\ ExtraAtRest
    /\ SchedAtRest
    /\ ads = <<>>
    /\ activity_logs = <<>>
    /\ daily_brand_stats = <<>>
    /\ now = 1
    /\ fed = 0 /\ lastBatch = <<>> /\ lastBrand = NULL /\ call1 = NONE /\ call2 = NONE
    /\ brands = BrandRows
    /\ brand_sources = SubSeq(SourceRows, 2, 3)
    /\ monitored_domains = <<>>
    /\ RunAtRest
    /\ ScrapeAtRest

\* runs of run_daily_batch with brands switched on and off through the API
\* between and during them
SpecAdmin == InitAdmin /\ [][NextAdmin]_vars

RaisedAt == {i \in DOMAIN outcomes : outcomes[i].raised}

RunReturned == pc = "idle" /\ summary.mode \notin {"none", "dry_run"}

\* C4: when the scraper of one target raises, the loop goes on to every later
\* target, exactly one error string for the failed target is in errors, the
\* target's result carries the error, and the run ends completed; no row is
\* ever failed.
C4_TargetFailureContained ==
    /\ \A k \in DOMAIN batch_runs : batch_runs[k].status # "failed"
    /\ pc = "targets" => Len(outcomes) = run.idx - 1
    /\ RunReturned =>
        LET row == batch_runs[summary.batch_run_id]
        IN  /\ Len(outcomes) = Len(run.targets)
            /\ row.status = "completed"
            /\ summary.status = "completed"
            /\ Len(row.errors) = Cardinality(RaisedAt)
            /\ summary.errors = row.errors
            /\ \A i \in DOMAIN outcomes :
                /\ outcomes[i].label = Label(run.branch, run.targets[i])
                /\ Cardinality({j \in DOMAIN row.errors :
                                  row.errors[j].label = outcomes[i].label})
                     = (IF outcomes[i].raised THEN 1 ELSE 0)
                /\ (DictGet(row.domain_results, outcomes[i].label).error # NULL)
                     = outcomes[i].raised

C4_Witness ==
    /\ RunReturned
    /\ Len(outcomes) = 3
    /\ outcomes[1].raised
    /\ ~outcomes[2].raised
    /\ batch_runs[summary.batch_run_id].total_ads_new = 1
    /\ Len(batch_runs[summary.batch_run_id].errors) = 1
    /\ batch_runs[summary.batch_run_id].status = "completed"

\* C5: a batch_runs row is created with status running, keeps it while its
\* run is under way, and once its status is completed or failed no write
\* sets it back to running.
C5_StatusNeverBackToRunning ==
    [][/\ \A k \in DOMAIN batch_runs' :
            k \notin DOMAIN batch_runs => batch_runs'[k].status = "running"
       /\ \A k \in DOMAIN batch_runs :
            /\ k \in DOMAIN batch_runs'
            /\ batch_runs[k].status \in {"completed", "failed"}
                 => batch_runs'[k].status = batch_runs[k].status
       /\ pc # "idle" => batch_runs[run.run_id].status = "running"]_vars

C5_Witness ==
    /\ Len(batch_runs) = 2
    /\ batch_runs[1].status = "completed"
    /\ batch_runs[2].status = "running"
    /\ pc = "targets"
    /\ run.idx = 2

\* C6: the total_ads_scraped column of a batch_runs row never decreases
\* from one state of the row to the next, over the per-target updates and
\* the final update.
C6_TotalScrapedMonotone ==
    [][\A k \in DOMAIN batch_runs :
          batch_runs'[k].total_ads_scraped >= batch_runs[k].total_ads_scraped]_vars

C6_Witness ==
    /\ RunReturned
    /\ Len(outcomes) = 3
    /\ ~outcomes[1].raised
    /\ outcomes[2].raised
    /\ batch_runs[summary.batch_run_id].total_ads_scraped = 2
    /\ batch_runs[summary.batch_run_id].status = "completed"

\* C7: a call of run_daily_batch with dry_run set returns the plan of the
\* branch it takes (single domain, brand sources, legacy domains) and leaves
\* batch_runs, ads, activity_logs and daily_brand_stats as they were, with no
\* scraper invoked.
C7_DryRunTouchesNothing ==
    [][(runs' = runs + 1 /\ req'.dry_run) =>
          /\ UNCHANGED <<batch_runs, ads, activity_logs, daily_brand_stats, scraperCalls>>
          /\ pc' = "idle"
          /\ \E sources \in GetActiveBrandSources(brands, brand_sources) :
                LET branch == Branch(req'.domain, sources)
                IN  summary' = Plan(branch, req'.trigger_type,
                                    Targets(branch, req'.domain, sources, monitored_domains))]_vars

C7_Witness ==
    /\ summary.mode = "dry_run"
    /\ summary.branch = "legacy"
    /\ summary.total = 2
    /\ Len(batch_runs) = 1
    /\ Len(ads) > 0

\* C19: with brands and brand_sources unchanged, two dry runs of
\* run_daily_batch in a row return the same target list in the same order,
\* also when a brand has several active sources on one platform.
C19_DryRunsRepeat ==
    [][(/\ pc = "idle" /\ summary.mode = "dry_run"
        /\ runs' = runs + 1 /\ req'.dry_run
        /\ req'.domain = req.domain
        /\ UNCHANGED configVars)
          => summary'.listed = summary.listed]_vars

\* the brand source of target t and its brand are both active
SourceActive(t) ==
    \E s \in Range(brand_sources), b \in brands :
        s.id = t.source_id /\ b.id = s.brand_id /\ s.is_active /\ b.is_active

StoredKeys(tbl) == {<<tbl[i].source_id, tbl[i].platform>> : i \in DOMAIN tbl}

MaxScrapes == 2      \* SpecScrape: scrape_source calls over a behaviour
BATCH_SIZE == 2      \* ads buffered before a flush; 50 in the source, scaled down
MetaMaxResults == 30 \* max_results of scrape_meta_ads_by_page_id in scrape_source

Schemes == {"http://", "https://"}
PathToks == {"/", "/sale", "/x", "/xyz", "/simgad/", "/sadbundle/", "/v/a.jpg", "/v/b.jpg",
             "/creative/", "/advertiser/"}
CreativeToks == {"CR1", "CR2"}          \* the tokens that match CR\w+
IsPathTok(t) == t \in PathToks

\* str.lower() of a token
LowerTok(t) == IF t = "Facebook." THEN "facebook." ELSE t

BLOCKED_DOMAINS == {"naver.", "kakao.", "facebook.", "instagram."}

\* is_blocked_url: a blocked name occurs anywhere in the lowered URL
IsBlockedUrl(url) ==
    /\ url # <<>>
    /\ url # NullText
    /\ \E i \in DOMAIN url : LowerTok(url[i]) \in BLOCKED_DOMAINS

\* str.replace("www.", "") and REPLACE(domain, 'www.', '')
RemoveWww(d) == SelectSeq(d, LAMBDA t : t # "www.")

\* the longest prefix without a "/"
HostPrefix(q) ==
    IF \E i \in DOMAIN q : IsPathTok(q[i])
    THEN SubSeq(q, 1, (CHOOSE i \in DOMAIN q :
                          IsPathTok(q[i]) /\ \A j \in 1..(i - 1) : ~IsPathTok(q[j])) - 1)
    ELSE q

RECURSIVE RStripSlash(_)
RStripSlash(q) ==
    IF q # <<>> /\ q[Len(q)] = "/" THEN RStripSlash(SubSeq(q, 1, Len(q) - 1)) ELSE q

\* re.match(r'https?://(?:www\.)?([^/]+)', landing_url), group 1, else ""
RegexDomain(url) ==
    IF url = <<>> \/ url = NullText \/ url[1] \notin Schemes THEN <<>>
    ELSE IF Len(url) >= 2 /\ url[2] = "www." /\ HostPrefix(SubSeq(url, 3, Len(url))) # <<>>
    THEN HostPrefix(SubSeq(url, 3, Len(url)))
    ELSE HostPrefix(Tail(url))

\* the defensive normalisation at the head of scrape_google_ads_by_domain
NormalizeDomain(domain) ==
    RStripSlash(RemoveWww(
        IF domain # <<>> /\ domain[1] \in Schemes
        THEN (IF HostPrefix(Tail(domain)) # <<>> THEN HostPrefix(Tail(domain))
              ELSE RStripSlash(Tail(domain)))
        ELSE domain))

\* re.search(r'/creative/(CR\w+)', href)
ExtractCreativeId(href) ==
    IF \E i \in 1..(Len(href) - 1) : href[i] = "/creative/" /\ href[i + 1] \in CreativeToks
    THEN href[(CHOOSE i \in 1..(Len(href) - 1) :
                  /\ href[i] = "/creative/" /\ href[i + 1] \in CreativeToks
                  /\ \A j \in 1..(i - 1) :
                        ~(href[j] = "/creative/" /\ href[j + 1] \in CreativeToks)) + 1]
    ELSE NULL

\* h.includes('/creative/')
HasCreative(href) == \E i \in DOMAIN href : href[i] = "/creative/"

\* landing_page_url LIKE '%bare%'
Like(text, bare) ==
    /\ text # NullText
    /\ \E k \in 1..(Len(text) + 1) :
          k + Len(bare) - 1 <= Len(text) /\ SubSeq(text, k, k + Len(bare) - 1) = bare

\* get_existing_creative_ids
GetExistingCreativeIds(tbl, domain) ==
    {tbl[i].creative_id : i \in {j \in DOMAIN tbl :
        /\ tbl[j].platform = "google"
        /\ tbl[j].creative_id # NULL
        /\ \/ tbl[j].domain # NullText /\ RemoveWww(tbl[j].domain) = RemoveWww(domain)
           \/ tbl[j].domain = NullText /\ Like(tbl[j].landing_page_url, RemoveWww(domain))}}

\* the incremental filter over the collected links
FilterLinks(links, existing) ==
    SelectSeq(links, LAMBDA h : ~(ExtractCreativeId(h) # NULL /\ ExtractCreativeId(h) \in existing))

\* make_source_id of google_scraper: a digest of advertiser and content URL
MakeSourceId(advertiser_name, content_url) == <<"google", advertiser_name, content_url>>

\* make_source_id of meta_scraper: the digest takes the path of the URL only
MakeSourceIdMeta(advertiser_name, content_url) ==
    <<"meta", advertiser_name, SelectSeq(content_url, IsPathTok)>>

IsSadbundle(content_url) == \E i \in DOMAIN content_url : content_url[i] = "/sadbundle/"

ResolveLandingUnfiltered(v, page_landing) ==
    IF IsSadbundle(v.content_url) /\ v.sad_landing # <<>> THEN v.sad_landing
    ELSE IF v.anchor_href # <<>> THEN v.anchor_href
    ELSE page_landing

\* the landing URL of a variant: sadbundle adurl, then the variant's anchor,
\* then the landing URL of the detail page, each dropped when blocked
ResolveLanding(v, page_landing) ==
    IF IsSadbundle(v.content_url) /\ v.sad_landing # <<>> /\ ~IsBlockedUrl(v.sad_landing)
    THEN v.sad_landing
    ELSE IF v.anchor_href # <<>> /\ ~IsBlockedUrl(v.anchor_href) THEN v.anchor_href
    ELSE IF IsBlockedUrl(page_landing) THEN <<>>
    ELSE page_landing

\* variant_to_platform_ad, followed by the creative_id assignment of the walk
VariantToPlatformAd(advertiser_name, v, landing_url, href) ==
    [source_id |-> MakeSourceId(advertiser_name, v.content_url), platform |-> "google",
     creative_id |-> ExtractCreativeId(href), brand_id |-> NULL,
     landing_page_url |-> IF landing_url = <<>> THEN NullText ELSE landing_url,
     domain |-> RegexDomain(landing_url)]

\* raw_to_platform_ad
RawToPlatformAd(raw) ==
    [source_id |-> MakeSourceIdMeta(raw.advertiser_name, raw.content_url), platform |-> "meta",
     creative_id |-> NULL, brand_id |-> NULL,
     landing_page_url |-> IF raw.landing_page_url = <<>> THEN NullText
                          ELSE raw.landing_page_url,
     domain |-> <<>>]

\* the domain filtering of _scrape_meta_url: raw ads with a blocked landing
\* URL are removed
MetaFilter(raws) == SelectSeq(raws, LAMBDA a : ~IsBlockedUrl(a.landing_page_url))

Take(q, n) == IF Len(q) <= n THEN q ELSE SubSeq(q, 1, n)

\* _scrape_meta_url after extract_ads
MetaAds(raws) ==
    [i \in DOMAIN Take(MetaFilter(raws), MetaMaxResults) |->
        RawToPlatformAd(Take(MetaFilter(raws), MetaMaxResults)[i])]

\* ----- what the pages show ------------------------------------------------
H1 == <<"/advertiser/", "AR1", "/creative/", "CR1">>
H2 == <<"/advertiser/", "AR1", "/creative/", "CR2">>
HX == <<"/advertiser/", "AR1", "/creative/", "X9">>
HA == <<"/advertiser/", "AR1">>
Listings == {<<H1>>, <<H1, H2>>, <<HA, H1, HX>>, <<H1, H1, H2>>}

OwnUrl == <<"https://", "www.", "acme.", "com", "/sale">>
ShopUrl == <<"https://", "shop.", "acme.", "com", "/x">>
NaverUrl == <<"https://", "naver.", "me", "/xyz">>
FacebookUrl == <<"https://", "m.", "Facebook.", "com", "/x">>

Simgad(href) == <<"https://", "tpc.", "googlesyndication.", "com", "/simgad/", href[Len(href)]>>
Sadbundle(href) ==
    <<"https://", "tpc.", "googlesyndication.", "com", "/sadbundle/", href[Len(href)]>>

Scenarios == {"own", "shop", "none", "blocked", "sad", "fail"}

\* the detail page of a creative link: whether it loads with its panel, the
\* landing URL _extract_landing_url finds, the variants collect_all_variants finds
PageOf(href, scen) ==
    [load |-> scen # "fail",
     advertiser_name |-> "Acme",
     page_landing |-> CASE scen = "own" -> OwnUrl
                        [] scen = "shop" -> ShopUrl
                        [] scen = "blocked" -> NaverUrl
                        [] OTHER -> <<>>,
     variants |->
        CASE scen = "sad" ->
                <<[content_url |-> Sadbundle(href), anchor_href |-> OwnUrl,
                   sad_landing |-> FacebookUrl],
                  [content_url |-> Simgad(href), anchor_href |-> <<>>, sad_landing |-> <<>>]>>
          [] scen = "blocked" ->
                <<[content_url |-> Simgad(href), anchor_href |-> FacebookUrl,
                   sad_landing |-> <<>>]>>
          [] OTHER ->
                <<[content_url |-> Simgad(href), anchor_href |-> <<>>, sad_landing |-> <<>>]>>]

RawOk == [advertiser_name |-> "Acme",
          content_url |-> <<"https://", "scontent.", "fbcdn.", "net", "/v/a.jpg", "?oh=1">>,
          landing_page_url |-> OwnUrl]
RawBlocked == [advertiser_name |-> "Acme",
               content_url |-> <<"https://", "scontent.", "fbcdn.", "net", "/v/b.jpg", "?oh=2">>,
               landing_page_url |-> NaverUrl]
Feeds == {<<RawOk>>, <<RawBlocked>>, <<RawBlocked, RawOk>>}

GoogleSourceValues == {<<"acme.", "com">>, <<"www.", "acme.", "com">>}

ScrapeSources(sv) ==
    <<[id |-> "src1", brand_id |-> "b1", platform |-> "google", source_type |-> "domain",
       source_value |-> sv, is_active |-> TRUE],
      [id |-> "src2", brand_id |-> "b1", platform |-> "meta", source_type |-> "page_id",
       source_value |-> <<"12345">>, is_active |-> TRUE]>>

\* ----- the detail walk ----------------------------------------------------
\* the landing candidates of a variant in the order they are tried
Candidates(v, page_landing) ==
    <<IF IsSadbundle(v.content_url) THEN v.sad_landing ELSE <<>>, v.anchor_href, page_landing>>

\* on_batch_callback(batch_buffer); batch_buffer = []
Flush(w, src) ==
    [w EXCEPT !.d = Delivered(w.d, OnBatch(w.d.tbl, w.buffer, src.source_value,
                                           src.brand_id, TRUE, w.d.t),
                              Len(w.buffer)),
              !.buffer = <<>>,
              !.callbacks = @ + 1,
              !.flushes = Append(@, [k \in DOMAIN w.buffer |-> w.buffer[k].source_id])]

FlushWhenFull(w, src) == IF Len(w.buffer) >= BATCH_SIZE THEN Flush(w, src) ELSE w

\* an ad built from a variant: buffered unless its source_id was seen in this call
AddAd(w, ad, cands, src) ==
    IF ad.source_id \in w.seen
    THEN [w EXCEPT !.resolved = @ \cup {[source_id |-> ad.source_id, candidates |-> cands,
                                         landing_page_url |-> ad.landing_page_url]}]
    ELSE FlushWhenFull(
            [w EXCEPT !.seen = @ \cup {ad.source_id},
                      !.buffer = Append(@, ad),
                      !.collected = Append(@, ad.source_id),
                      !.resolved = @ \cup {[source_id |-> ad.source_id, candidates |-> cands,
                                            landing_page_url |-> ad.landing_page_url]}],
            src)

\* the loop over the variants of one detail page
RECURSIVE WalkVariants(_, _, _, _, _)
WalkVariants(w, variants, page, href, src) ==
    IF variants = <<>> THEN w
    ELSE WalkVariants(
            AddAd(w,
                  VariantToPlatformAd(page.advertiser_name, Head(variants),
                                      ResolveLanding(Head(variants), page.page_landing), href),
                  Candidates(Head(variants), page.page_landing),
                  src),
            Tail(variants), page, href, src)

\* the locals of the walk when a step of it starts
WalkStart(loc, tbl, t, res) ==
    [d |-> [tbl |-> tbl, t |-> t, raised |-> FALSE, scraped |-> loc.scraped,
            new |-> loc.new, updated |-> loc.updated, logs |-> <<>>],
     buffer |-> loc.buffer, seen |-> loc.seen, callbacks |-> loc.callbacks,
     collected |-> loc.collected, flushes |-> loc.flushes,
     resolved |-> res]

\* one pass of the detail loop: a page that does not load is skipped
VisitPage(w, page, href, src) ==
    IF page.load THEN WalkVariants(w, page.variants, page, href, src) ELSE w

\* "if on_batch_callback is not None and batch_buffer"
FinalFlush(w, src) == IF w.buffer # <<>> THEN Flush(w, src) ELSE w

\* creative_ids of the rows of the ads table
StoredCreativeIds(tbl) ==
    {tbl[i].creative_id : i \in {j \in DOMAIN tbl : tbl[j].creative_id # NULL}}

\* listed links whose creative is stored
Known(anchors, tbl) ==
    {i \in DOMAIN anchors : ExtractCreativeId(anchors[i]) \in StoredCreativeIds(tbl)}

\* every listed link has a stored Google ad carrying its creative_id
StoredAll(anchors, tbl) ==
    \A i \in DOMAIN anchors :
        \E j \in DOMAIN tbl :
            /\ tbl[j].platform = "google"
            /\ tbl[j].creative_id # NULL
            /\ tbl[j].creative_id = ExtractCreativeId(anchors[i])

Account(platform, mode, raised, loc, before, after, result) ==
    [platform |-> platform, mode |-> mode, raised |-> raised,
     source_value |-> loc.src.source_value,
     anchors |-> loc.anchors, known |-> loc.known, remaining |-> Len(loc.links),
     visits |-> loc.visits, callbacks |-> loc.callbacks,
     collected |-> loc.collected, flushes |-> loc.flushes,
     before |-> before, after |-> after,
     result |-> [scraped |-> result.ads_scraped, new |-> result.ads_new,
                 updated |-> result.ads_updated],
     stored_all |-> StoredAll(loc.anchors, after)]

\* the locals of scrape_source and of the scraper it calls once the listing
\* is read and, in incremental mode, filtered
Opened(src, mode, anchors, links, tbl) ==
    [pc |-> "detail", src |-> src, mode |-> mode,
     anchors |-> anchors, known |-> Cardinality(Known(anchors, tbl)),
     links |-> links, i |-> 1, visits |-> 0, callbacks |-> 0,
     buffer |-> <<>>, seen |-> {}, scraped |-> 0, new |-> 0, updated |-> 0,
     collected |-> <<>>, flushes |-> <<>>,
     before |-> tbl]

InitScrape ==
    /\ ExtraAtRest
    /\ SchedAtRest
    /\ ads = <<>>
    /\ activity_logs = <<>>
    /\ daily_brand_stats = <<>>
    /\ now = 1
    /\ fed = 0 /\ lastBatch = <<>> /\ lastBrand = NULL /\ call1 = NONE /\ call2 = NONE
    /\ brands = BrandRows
    /\ \E sv \in GoogleSourceValues : brand_sources = ScrapeSources(sv)
    /\ monitored_domains = <<>>
    /\ RunAtRest
    /\ listing \in Listings
    /\ pages \in [{listing[i] : i \in {j \in DOMAIN listing : HasCreative(listing[j])}}
                    -> Scenarios]
    /\ metaFeed \in Feeds
    /\ scrapes = 0
    /\ sc = NoScrape
    /\ last = NoAccount
    /\ prev = NoAccount
    /\ resolved = {}

\* scrape_source returns: the tail of scrape_source and the account of the call
Returned(e, loc, platform) ==
    /\ ads' = e.tbl
    /\ now' = e.t
    /\ activity_logs' = activity_logs \o e.logs
    /\ daily_brand_stats' = e.stats
    /\ prev' = last
    /\ last' = Account(platform, loc.mode, e.raised, loc, loc.before, e.tbl, e.result)
    /\ sc' = NoScrape

\* scrape_source of a google/domain source up to the detail walk: the listing
\* page is loaded (or the load raises), the links are collected and, in
\* incremental mode, filtered; with no link left the scraper returns at once
GoogleList ==
    /\ sc.pc = "idle"
    /\ scrapes < MaxScrapes
    /\ scrapes' = scrapes + 1
    /\ \E src \in JoinedSources(brands, brand_sources), mode \in {"full", "incremental"},
          fails \in BOOLEAN :
        /\ Scraper(src.platform, src.source_type) = "scrape_google_ads_by_domain"
        /\ IF fails
           THEN /\ prev' = last
                /\ last' = [platform |-> "google", mode |-> mode, raised |-> TRUE]
                /\ UNCHANGED <<ads, now, activity_logs, daily_brand_stats, sc>>
           ELSE IF mode = "incremental"
                   /\ FilterLinks(SelectSeq(listing, HasCreative),
                                  GetExistingCreativeIds(ads, NormalizeDomain(src.source_value)))
                        = <<>>
           THEN Returned(ScrapeSourceEnd(DeliverStart(ads, now), FALSE, src, daily_brand_stats),
                         Opened(src, mode, SelectSeq(listing, HasCreative), <<>>, ads),
                         "google")
           ELSE /\ sc' = Opened(src, mode, SelectSeq(listing, HasCreative),
                                IF mode = "incremental"
                                THEN FilterLinks(SelectSeq(listing, HasCreative),
                                        GetExistingCreativeIds(ads,
                                            NormalizeDomain(src.source_value)))
                                ELSE SelectSeq(listing, HasCreative),
                                ads)
                /\ UNCHANGED <<ads, now, activity_logs, daily_brand_stats, last, prev>>
    /\ UNCHANGED <<resolved, listing, pages, metaFeed, storeVars, configVars, runVars, schedVars, extraVars>>

\* the state after one pass of the detail loop
Visited(w) ==
    /\ ads' = w.d.tbl
    /\ now' = w.d.t
    /\ activity_logs' = activity_logs \o w.d.logs
    /\ resolved' = w.resolved
    /\ sc' = [sc EXCEPT !.i = @ + 1, !.visits = @ + 1,
                        !.buffer = w.buffer, !.seen = w.seen, !.callbacks = w.callbacks,
                        !.collected = w.collected, !.flushes = w.flushes,
                        !.scraped = w.d.scraped, !.new = w.d.new, !.updated = w.d.updated]

\* one pass of the detail loop of scrape_google_ads_by_domain
GoogleVisit ==
    /\ sc.pc = "detail"
    /\ sc.i <= Len(sc.links)
    /\ Visited(VisitPage(WalkStart(sc, ads, now, resolved),
                         PageOf(sc.links[sc.i], pages[sc.links[sc.i]]),
                         sc.links[sc.i], sc.src))
    /\ UNCHANGED <<daily_brand_stats, last, prev, scrapes, listing, pages, metaFeed,
                   storeVars, configVars, runVars, schedVars, extraVars>>

\* the scraper and scrape_source after the last buffered ad is flushed
Closed(w) ==
    Returned(ScrapeSourceEnd(w.d, FALSE, sc.src, daily_brand_stats),
             [sc EXCEPT !.callbacks = w.callbacks, !.flushes = w.flushes], "google")

\* the end of the detail loop: the final flush, the return of the scraper and
\* the tail of scrape_source
GoogleClose ==
    /\ sc.pc = "detail"
    /\ sc.i > Len(sc.links)
    /\ Closed(FinalFlush(WalkStart(sc, ads, now, resolved), sc.src))
    /\ UNCHANGED <<resolved, scrapes, listing, pages, metaFeed, storeVars, configVars, runVars, schedVars, extraVars>>

\* scrape_source of a meta/page_id source
MetaScrape ==
    /\ sc.pc = "idle"
    /\ scrapes < MaxScrapes
    /\ scrapes' = scrapes + 1
    /\ \E src \in JoinedSources(brands, brand_sources), fails \in BOOLEAN :
        /\ Scraper(src.platform, src.source_type) = "scrape_meta_ads_by_page_id"
        /\ IF fails
           THEN /\ prev' = last
                /\ last' = [platform |-> "meta", mode |-> "full", raised |-> TRUE]
                /\ UNCHANGED <<ads, now, activity_logs, daily_brand_stats, sc>>
           ELSE Returned(
                    ScrapeSourceEnd(
                        Deliver(DeliverStart(ads, now),
                                IF MetaAds(metaFeed) = <<>> THEN <<>> ELSE <<MetaAds(metaFeed)>>,
                                src.source_value, src.brand_id, TRUE),
                        FALSE, src, daily_brand_stats),
                    Opened(src, "full", <<>>, <<>>, ads),
                    "meta")
    /\ UNCHANGED <<resolved, listing, pages, metaFeed, storeVars, configVars, runVars, schedVars, extraVars>>

\* a pass of the detail loop raises outside its guarded waits (a selector
\* query, the variant collection, the landing extraction): the ads buffered
\* since the last flush are dropped with the scraper's frame and scrape_source
\* propagates the exception before its tail runs
GoogleRaise ==
    /\ sc.pc = "detail"
    /\ sc.i <= Len(sc.links)
    /\ prev' = last
    /\ last' = Account("google", sc.mode, TRUE, sc, sc.before, ads,
                       [ads_scraped |-> sc.scraped, ads_new |-> sc.new,
                        ads_updated |-> sc.updated])
    /\ resolved' = {c \in resolved :
                       \A k \in DOMAIN sc.buffer : sc.buffer[k].source_id # c.source_id}
    /\ sc' = NoScrape
    /\ UNCHANGED <<ads, now, activity_logs, daily_brand_stats, scrapes, listing, pages,
                   metaFeed, storeVars, configVars, runVars, schedVars, extraVars>>

NextScrape == GoogleList \/ GoogleVisit \/ GoogleClose \/ GoogleRaise \/ MetaScrape

SpecScrape == InitScrape /\ [][NextScrape]_vars
GoogleEnded(a) == a.platform = "google" /\ ~a.raised

\* C8: an incremental scrape_google_ads_by_domain visits at most
\* |anchors| - |C /\ anchors| detail pages, C being the creative_ids stored in
\* the ads table, and with no link left after the filter it visits no detail
\* page and never calls the batch callback.
C8_IncrementalSkip ==
    (GoogleEnded(last) /\ last.mode = "incremental") =>
        /\ last.visits <= Len(last.anchors) - last.known
        /\ last.remaining = 0 => (last.visits = 0 /\ last.callbacks = 0)

\* C9: after a full scrape of a google/domain source has stored an ad for
\* every listed creative, the incremental scrape of the same source that
\* follows it over the same listing visits no detail page, leaves the ads
\* table as it was and reports scraped = 0, new = 0, updated = 0.
C9_RepeatIncremental ==
    (/\ sc.pc = "idle"
     /\ GoogleEnded(prev) /\ prev.mode = "full" /\ prev.stored_all
     /\ GoogleEnded(last) /\ last.mode = "incremental") =>
        /\ last.visits = 0
        /\ last.after = last.before
        /\ last.result = [scraped |-> 0, new |-> 0, updated |-> 0]

\* the first candidate that is there, and the first that is there and not blocked
FirstCandidate(cands) ==
    IF \E i \in DOMAIN cands : cands[i] # <<>>
    THEN cands[CHOOSE i \in DOMAIN cands :
                  cands[i] # <<>> /\ \A j \in 1..(i - 1) : cands[j] = <<>>]
    ELSE <<>>

FirstNonBlocked(cands) ==
    FirstCandidate([i \in DOMAIN cands |-> IF IsBlockedUrl(cands[i]) THEN <<>> ELSE cands[i]])

StoredWith(source_id, platform, landing) ==
    \E j \in DOMAIN ads :
        /\ ads[j].source_id = source_id
        /\ ads[j].platform = platform
        /\ ads[j].landing_page_url = landing

BlockedRaws == {i \in DOMAIN metaFeed : IsBlockedUrl(metaFeed[i].landing_page_url)}

IsNormalisedDomain(d) ==
    /\ d # NullText
    /\ \A i \in DOMAIN d : d[i] \notin Schemes /\ LowerTok(d[i]) = d[i]
    /\ d = <<>> \/ d[1] # "www."

\* C11: every domain value persisted by a scrape of a batch run is the
\* lowercased host without a leading "www." and without a scheme, whether the
\* scraper derived it from the landing URL or the batch callback defaulted it
\* from the source_value of the target.
C11_DomainNormalised ==
    \A j \in DOMAIN ads : IsNormalisedDomain(ads[j].domain)

\* ---------------------------------------------------------------------------
\* C12: what the batch callback of scrape_google_ads_by_domain receives
\* ---------------------------------------------------------------------------

RECURSIVE Flatten(_)
Flatten(qs) == IF qs = <<>> THEN <<>> ELSE Head(qs) \o Flatten(Tail(qs))

IsPrefix(p, q) == Len(p) <= Len(q) /\ SubSeq(q, 1, Len(p)) = p

NoDuplicates(q) == \A i, j \in DOMAIN q : q[i] = q[j] => i = j

\* a Google scrape that got as far as the detail walk has ended
WalkEnded(a) == a.platform = "google" /\ "flushes" \in DOMAIN a

\* C12 as stated: every collected, deduplicated ad reaches the callback
\* exactly once and in collection order; every flush made during the walk
\* carries exactly BATCH_SIZE ads and the last one carries the remainder.
C12_EveryAdDeliveredOnce ==
    WalkEnded(last) =>
        /\ NoDuplicates(last.collected)
        /\ Flatten(last.flushes) = last.collected
        /\ \A k \in DOMAIN last.flushes :
              /\ Len(last.flushes[k]) \in 1..BATCH_SIZE
              /\ k < Len(last.flushes) => Len(last.flushes[k]) = BATCH_SIZE

\* what C12 comes to in the code: the statement holds for a scrape that
\* returns; a scrape whose walk raises has delivered, in flushes of exactly
\* BATCH_SIZE, a prefix of what it collected, and the fewer than BATCH_SIZE
\* ads buffered since the last flush are never delivered.
C12_DeliveredOnceOnReturn ==
    WalkEnded(last) =>
        /\ NoDuplicates(last.collected)
        /\ IsPrefix(Flatten(last.flushes), last.collected)
        /\ Len(last.collected) - Len(Flatten(last.flushes)) < BATCH_SIZE
        /\ \A k \in DOMAIN last.flushes :
              /\ Len(last.flushes[k]) \in 1..BATCH_SIZE
              /\ (k < Len(last.flushes) \/ last.raised) => Len(last.flushes[k]) = BATCH_SIZE
        /\ ~last.raised =>
              /\ Flatten(last.flushes) = last.collected
              /\ last.callbacks = Len(last.flushes)
              /\ last.result.scraped = Len(last.collected)

C12_Witness ==
    /\ WalkEnded(last) /\ ~last.raised
    /\ last.anchors = <<H1, H1, H2>>
    /\ last.visits = 3
    /\ Len(last.collected) = BATCH_SIZE + 1
    /\ Len(last.flushes) = 2
    /\ Len(last.flushes[1]) = BATCH_SIZE
    /\ Len(last.flushes[2]) = 1
    /\ WalkEnded(prev) /\ prev.raised
    /\ Len(prev.collected) > Len(Flatten(prev.flushes))

\* ---------------------------------------------------------------------------
\* C18: daily_brand_stats under record_daily_stats
\* ---------------------------------------------------------------------------

RECURSIVE SumOver(_, _, _)
SumOver(stats, field, key) ==
    IF stats = <<>> THEN 0
    ELSE (IF <<Head(stats).brand_id, Head(stats).stat_date, Head(stats).platform>> = key
          THEN Head(stats)[field] ELSE 0)
         + SumOver(Tail(stats), field, key)

StatKeys(stats) == {<<stats[i].brand_id, stats[i].stat_date, stats[i].platform>> : i \in DOMAIN stats}

\* scrape_source returns in this step having called record_daily_stats
StatsCall ==
    /\ sc' = NoScrape
    /\ scrapes' # scrapes \/ sc # NoScrape
    /\ ~last'.raised
    /\ last'.result.new > 0 \/ last'.result.updated > 0

\* what the call passes for a counter
Passed(field) ==
    CASE field = "new_count" -> last'.result.new
      [] field = "updated_count" -> last'.result.updated
      [] OTHER -> last'.result.scraped

MaxTicks == 2        \* SpecSched: trigger firings over a behaviour
MaxInstances == 1    \* max_instances of a job added without that argument

\* trigger_type and mode the job function of a kind passes to run_daily_batch
TriggerType(kind) ==
    IF kind = "incremental" THEN "scheduled_incremental" ELSE "scheduled_full"

CanSubmitAlways(instances) == TRUE

\* the executor starts a run of a job only below the job's max_instances
CanSubmit(instances) == instances < MaxInstances

\* the rows of the runs some job instance is in the middle of
RunningRows == {jobs[k].run_id : k \in {j \in JobKinds : jobs[j].pc \in {"created", "targets"}}}

\* the instance is over: returned, or raised into the except of the job function
JobEnd(j, how) ==
    [NoJob EXCEPT !.instances = j.instances - 1, !.started = j.started,
                  !.ended = how, !.run_id = j.run_id]

\* the daemon after start_scheduler and signal.signal, asleep in its loop,
\* with one active brand source (acme on meta) to collect
InitSched ==
    /\ ExtraAtRest
    /\ ads = <<>>
    /\ activity_logs = <<>>
    /\ daily_brand_stats = <<>>
    /\ now = 1
    /\ fed = 0 /\ lastBatch = <<>> /\ lastBrand = NULL /\ call1 = NONE /\ call2 = NONE
    /\ brands = BrandRows
    /\ brand_sources = SubSeq(SourceRows, 2, 2)
    /\ monitored_domains = <<>>
    /\ RunAtRest
    /\ ScrapeAtRest
    /\ proc = [state |-> "up", interrupted |-> {}]
    /\ jobs = [k \in JobKinds |-> NoJob]
    /\ ticks = [k \in JobKinds |-> NoTicks]

\* trigger firings so far, over both jobs
Fired == ticks["incremental"].fired + ticks["full"].fired

\* the cron trigger of a job fires: the executor runs the job function in a
\* worker thread, or the run is skipped because an instance is still running
SchedTick(kind) ==
    /\ proc.state = "up"
    /\ Fired < MaxTicks
    /\ IF CanSubmit(jobs[kind].instances)
       THEN /\ jobs' = [jobs EXCEPT ![kind] =
                          [NoJob EXCEPT !.pc = "called",
                                        !.instances = jobs[kind].instances + 1,
                                        !.started = jobs[kind].started]]
            /\ ticks' = [ticks EXCEPT ![kind].fired = @ + 1, ![kind].submitted = @ + 1]
       ELSE /\ ticks' = [ticks EXCEPT ![kind].fired = @ + 1]
            /\ UNCHANGED jobs
    /\ UNCHANGED <<proc, ads, activity_logs, daily_brand_stats, now, storeVars, configVars,
                   runVars, scrapeVars, extraVars>>

\* the locals of run_daily_batch once create_batch_run returned run_id
JobCreated(j, run_id, kind, sources) ==
    [j EXCEPT !.pc = "created", !.started = @ + 1, !.run_id = run_id,
              !.branch = Branch(<<>>, sources), !.mode = kind,
              !.targets = Targets(Branch(<<>>, sources), <<>>, sources, monitored_domains),
              !.idx = 1]

\* the job function calls run_daily_batch, which resolves its targets and
\* calls create_batch_run; a database error there leaves no row
JobCall(kind) ==
    /\ proc.state \in {"up", "stopping"}
    /\ jobs[kind].pc = "called"
    /\ \E sources \in GetActiveBrandSources(brands, brand_sources), ok \in BOOLEAN :
        IF ok
        THEN /\ batch_runs' = Append(batch_runs, CreateBatchRunRow(TriggerType(kind), now))
             /\ activity_logs' = Append(activity_logs, "batch_started")
             /\ now' = now + 1
             /\ jobs' = [jobs EXCEPT ![kind] =
                            JobCreated(jobs[kind], Len(batch_runs) + 1, kind, sources)]
        ELSE /\ jobs' = [jobs EXCEPT ![kind] =
                            JobEnd([jobs[kind] EXCEPT !.started = @ + 1], "raised")]
             /\ UNCHANGED <<batch_runs, activity_logs, now>>
    /\ UNCHANGED <<proc, ticks, ads, daily_brand_stats, runs, req, pc, run, outcomes,
                   scraperCalls, summary, storeVars, configVars, scrapeVars, extraVars>>

\* update_batch_run(run_id, total_domains=...), which may raise
JobSetTotal(kind) ==
    /\ proc.state \in {"up", "stopping"}
    /\ jobs[kind].pc = "created"
    /\ \E ok \in BOOLEAN :
        IF ok
        THEN /\ batch_runs' = UpdateBatchRun(batch_runs, jobs[kind].run_id,
                                             [total_domains |-> Len(jobs[kind].targets)])
             /\ now' = now + 1
             /\ jobs' = [jobs EXCEPT ![kind].pc = "targets"]
        ELSE /\ jobs' = [jobs EXCEPT ![kind] = JobEnd(jobs[kind], "raised")]
             /\ UNCHANGED <<batch_runs, now>>
    /\ UNCHANGED <<proc, ticks, ads, activity_logs, daily_brand_stats, runs, req, pc, run,
                   outcomes, scraperCalls, summary, storeVars, configVars, scrapeVars, extraVars>>

\* the rest of a loop iteration of a job once the scrape of its target ended
\* as s; the update_batch_run after the try/except may raise out of the loop
JobIterationEnd(kind, s, label, errResult, ok) ==
    /\ ads' = s.tbl
    /\ activity_logs' = activity_logs \o s.logs
            \o (IF s.raised THEN <<"batch_failed">> ELSE <<>>)
    /\ now' = s.t + 1
    /\ IF ok
       THEN /\ batch_runs' = UpdateBatchRun(batch_runs, jobs[kind].run_id,
                                ProgressKwargs(AfterTarget(jobs[kind], label, s, errResult)))
            /\ jobs' = [jobs EXCEPT ![kind] = AfterTarget(jobs[kind], label, s, errResult)]
       ELSE /\ jobs' = [jobs EXCEPT ![kind] = JobEnd(jobs[kind], "raised")]
            /\ UNCHANGED batch_runs

\* one iteration of the loop of _run_brand_sources_batch in a job
JobSourceIteration(kind) ==
    /\ proc.state \in {"up", "stopping"}
    /\ jobs[kind].pc = "targets"
    /\ jobs[kind].branch = "brand"
    /\ jobs[kind].idx <= Len(jobs[kind].targets)
    /\ LET src == jobs[kind].targets[jobs[kind].idx]
       IN  \E em \in Emissions(Scraper(src.platform, src.source_type), src.platform),
              ok \in BOOLEAN :
             /\ JobIterationEnd(kind, ScrapeSource(ads, daily_brand_stats, src, em, now),
                                Label("brand", src),
                                BrandSourceScrapeResult(src, 0, 0, 0, Exc), ok)
             /\ daily_brand_stats' = ScrapeSource(ads, daily_brand_stats, src, em, now).stats
    /\ UNCHANGED <<proc, ticks, runs, req, pc, run, outcomes, scraperCalls, summary,
                   storeVars, configVars, scrapeVars, extraVars>>

\* the final update_batch_run of run_daily_batch, which may raise, and the return
JobFinish(kind) ==
    /\ proc.state \in {"up", "stopping"}
    /\ jobs[kind].pc = "targets"
    /\ jobs[kind].idx > Len(jobs[kind].targets)
    /\ \E ok \in BOOLEAN :
        IF ok
        THEN /\ batch_runs' = UpdateBatchRun(batch_runs, jobs[kind].run_id,
                    [status |-> FinalStatus(jobs[kind].errors), finished_at |-> now,
                     total_ads_scraped |-> jobs[kind].total_scraped,
                     total_ads_new |-> jobs[kind].total_new,
                     total_ads_updated |-> jobs[kind].total_updated,
                     domain_results |-> jobs[kind].domain_results,
                     errors |-> jobs[kind].errors])
             /\ activity_logs' = Append(activity_logs, "batch_completed")
             /\ now' = now + 1
             /\ jobs' = [jobs EXCEPT ![kind] = JobEnd(jobs[kind], "returned")]
        ELSE /\ jobs' = [jobs EXCEPT ![kind] = JobEnd(jobs[kind], "raised")]
             /\ UNCHANGED <<batch_runs, activity_logs, now>>
    /\ UNCHANGED <<proc, ticks, ads, daily_brand_stats, runs, req, pc, run, outcomes,
                   scraperCalls, summary, storeVars, configVars, scrapeVars, extraVars>>

\* SIGINT or SIGTERM: _handle_signal logs, calls stop_scheduler(), which shuts
\* the scheduler down without waiting for running jobs, and raises
\* SystemExit(0); the interpreter then waits for the worker threads. A signal
\* during that wait runs the handler again and ends the wait.
HandleSignal ==
    /\ proc.state \in {"up", "stopping"}
    /\ proc' = IF proc.state = "up"
               THEN [state |-> "stopping", interrupted |-> RunningRows]
               ELSE [proc EXCEPT !.state = "exited"]
    /\ UNCHANGED <<jobs, ticks, ads, activity_logs, daily_brand_stats, now, storeVars,
                   configVars, runVars, scrapeVars, extraVars>>

\* the process ends once no worker thread is left running a job
ProcessExit ==
    /\ proc.state = "stopping"
    /\ \A k \in JobKinds : jobs[k].pc = "idle"
    /\ proc' = [proc EXCEPT !.state = "exited"]
    /\ UNCHANGED <<jobs, ticks, ads, activity_logs, daily_brand_stats, now, storeVars,
                   configVars, runVars, scrapeVars, extraVars>>

NextSched ==
    \/ \E kind \in JobKinds : SchedTick(kind)
    \/ \E kind \in JobKinds : JobCall(kind)
    \/ \E kind \in JobKinds : JobSetTotal(kind)
    \/ \E kind \in JobKinds : JobSourceIteration(kind)
    \/ \E kind \in JobKinds : JobFinish(kind)
    \/ HandleSignal
    \/ ProcessExit

SpecSched == InitSched /\ [][NextSched]_vars

C14_SignalMarksRunFailed ==
    proc.state = "exited" =>
        \A r \in proc.interrupted :
            /\ batch_runs[r].status = "failed"
            /\ batch_runs[r].finished_at # 0

\* C17: a run of run_daily_batch that ended by raising, because
\* create_batch_run or update_batch_run failed, has status failed in its
\* batch_runs row when it had created one.
C17_WriteFailureMarksRunFailed ==
    \A k \in JobKinds :
        (jobs[k].ended = "raised" /\ jobs[k].run_id # 0)
            => batch_runs[jobs[k].run_id].status = "failed"

\* ---------------------------------------------------------------------------
\* C21: failures inside the detail walk of scrape_google_ads_by_domain
\* ---------------------------------------------------------------------------

\* C21: whatever fails on a detail page or on one of its variants, a call of
\* scrape_google_ads_by_domain that entered its detail walk ends with every
\* link of the walk passed and every ad it collected handed to the callback.
C21_ItemFailureSkipped ==
    WalkEnded(last) =>
        /\ last.visits = last.remaining
        /\ \A k \in DOMAIN last.collected :
              \E f \in DOMAIN last.flushes :
                 \E m \in DOMAIN last.flushes[f] : last.flushes[f][m] = last.collected[k]

\* what holds of the guarded failures alone: a detail page that does not load
\* is passed over, the later pages are visited and their ads delivered
C21_LoadFailureSkipped ==
    (WalkEnded(last) /\ ~last.raised) =>
        /\ last.visits = last.remaining
        /\ Flatten(last.flushes) = last.collected

C21_Witness ==
    /\ WalkEnded(last)
    /\ ~last.raised
    /\ last.remaining = 2
    /\ last.visits = 2
    /\ pages[H1] = "fail"
    /\ Len(last.collected) = 1
    /\ last.result.new = 1

\* ---------------------------------------------------------------------------
\* The listing scroll loop of scrape_google_ads_by_domain
\* ---------------------------------------------------------------------------

ScrollCapUnlimited == 5       \* max_scroll_attempts with max_results None; 100 in the source
ScrollCapLimited == 3         \* max_scroll_attempts otherwise; 15 in the source
SCROLL_TIMEOUT_SECONDS == 6   \* 300 in the source, in units of the pause after a scroll
MaxCards == 3                 \* creative cards the listing page can come to show
NoNewLimit == 3               \* "if no_new_count >= 3"
ScrollPause == 1              \* time.sleep(2) after a scroll, the unit of time
SlowIteration == 3            \* an iteration whose page.evaluate calls take long

\* the max_results the callers pass: None from scrape_source (unlimited, the
\* number is then never read), a number from the command line
ScrollMaxResults == {[unlimited |-> TRUE, max_results |-> 0],
                     [unlimited |-> FALSE, max_results |-> MaxCards - 1]}

\* max_scroll_attempts = 100 if unlimited else 15
ScrollCap(unlimited) == IF unlimited THEN ScrollCapUnlimited ELSE ScrollCapLimited

\* the locals when the loop is entered
ScrollEntered(unlimited, max_results) ==
    [pc |-> "loop", unlimited |-> unlimited, max_results |-> max_results, prev_count |-> 0, scroll_attempts |-> 0,
     no_new_count |-> 0, elapsed |-> 0, obs |-> <<>>, checked |-> <<>>]

\* the loop without its bound on scroll_attempts
ScrollStepUncapped(s, current_count, dt) ==
    IF s.elapsed > SCROLL_TIMEOUT_SECONDS
    THEN [s EXCEPT !.pc = "stopped", !.checked = Append(@, s.elapsed)]
    ELSE IF ~s.unlimited /\ current_count >= s.max_results
    THEN [s EXCEPT !.pc = "stopped", !.checked = Append(@, s.elapsed),
                   !.obs = Append(@, current_count)]
    ELSE IF current_count = s.prev_count /\ s.no_new_count + 1 >= NoNewLimit
    THEN [s EXCEPT !.pc = "stopped", !.checked = Append(@, s.elapsed),
                   !.obs = Append(@, current_count), !.no_new_count = @ + 1]
    ELSE [s EXCEPT !.checked = Append(@, s.elapsed),
                   !.obs = Append(@, current_count),
                   !.no_new_count = IF current_count = s.prev_count THEN @ + 1 ELSE 0,
                   !.prev_count = current_count,
                   !.scroll_attempts = @ + 1,
                   !.elapsed = @ + dt]

\* one pass of "while scroll_attempts < max_scroll_attempts" with the card
\* count page.evaluate returns and the time the pass takes, up to the next
\* test of the while condition
ScrollStep(s, current_count, dt) ==
    IF s.elapsed > SCROLL_TIMEOUT_SECONDS
    THEN [s EXCEPT !.pc = "stopped", !.checked = Append(@, s.elapsed)]
    ELSE IF ~s.unlimited /\ current_count >= s.max_results
    THEN [s EXCEPT !.pc = "stopped", !.checked = Append(@, s.elapsed),
                   !.obs = Append(@, current_count)]
    ELSE IF current_count = s.prev_count /\ s.no_new_count + 1 >= NoNewLimit
    THEN [s EXCEPT !.pc = "stopped", !.checked = Append(@, s.elapsed),
                   !.obs = Append(@, current_count), !.no_new_count = @ + 1]
    ELSE [s EXCEPT !.pc = IF s.scroll_attempts + 1 < ScrollCap(s.unlimited)
                          THEN "loop" ELSE "stopped",
                   !.checked = Append(@, s.elapsed),
                   !.obs = Append(@, current_count),
                   !.no_new_count = IF current_count = s.prev_count THEN @ + 1 ELSE 0,
                   !.prev_count = current_count,
                   !.scroll_attempts = @ + 1,
                   !.elapsed = @ + dt]

\* the listing page is open and the loop is about to start
InitScroll ==
    /\ CoreAtRest
    /\ conv = NoConv /\ batch_jobs = NoBatchJobs /\ sessions = NoSessions /\ cache = NoCache
    /\ cb = NoCb
    /\ \E m \in ScrollMaxResults : scroll = ScrollEntered(m.unlimited, m.max_results)

\* the count the page shows next: cards are appended, never removed
NextCounts(s) == (IF s.obs = <<>> THEN 0 ELSE s.obs[Len(s.obs)])..MaxCards

ScrollIteration ==
    /\ scroll.pc = "loop"
    /\ \E current_count \in NextCounts(scroll), dt \in {ScrollPause, SlowIteration} :
         scroll' = ScrollStep(scroll, current_count, dt)
    /\ UNCHANGED <<coreVars, conv, batch_jobs, sessions, cache, cb>>

\* page.evaluate raises (the page crashed, the browser was closed) and the
\* exception leaves scrape_google_ads_by_domain
ScrollRaise ==
    /\ scroll.pc = "loop"
    /\ scroll.elapsed <= SCROLL_TIMEOUT_SECONDS
    /\ scroll' = [scroll EXCEPT !.pc = "raised", !.checked = Append(@, scroll.elapsed)]
    /\ UNCHANGED <<coreVars, conv, batch_jobs, sessions, cache, cb>>

NextScroll == ScrollIteration \/ ScrollRaise

\* the loop runs in one thread that nothing suspends: a pass that can be taken is taken
SpecScroll == InitScroll /\ [][NextScroll]_vars /\ WF_vars(NextScroll)

\* what the k-th pass compared its count with: prev_count, 0 in the first pass
ObsBefore(obs, k) == IF k = 1 THEN 0 ELSE obs[k - 1]

\* the k-th pass and the NoNewLimit - 1 before it each saw the count it compared with
StalledAt(obs, k) ==
    /\ k >= NoNewLimit
    /\ \A j \in (k - NoNewLimit + 1)..k : obs[j] = ObsBefore(obs, j)

\* the three scrolls before the k-th pass each left the count where it was
ThreeIdleScrolls(obs, k) ==
    /\ k >= NoNewLimit + 1
    /\ \A j \in (k - NoNewLimit + 1)..k : obs[j] = obs[j - 1]

ReachedAt(s, k) == ~s.unlimited /\ s.obs[k] >= s.max_results

TimedOutAt(s, k) == s.checked[k] > SCROLL_TIMEOUT_SECONDS

\* the pass that ended the loop: the last one that looked at the clock
LastPass(s) == Len(s.checked)

\* C22 as stated: the loop stops exactly at the first of max_results reached,
\* three consecutive scrolls that added no item, or the wall clock elapsed, so
\* whenever it has stopped one of the three is the case.
C22_StopsAtFirstOfThree ==
    scroll.pc = "stopped" =>
        \/ TimedOutAt(scroll, LastPass(scroll))
        \/ /\ Len(scroll.obs) = LastPass(scroll)
           /\ \/ ReachedAt(scroll, LastPass(scroll))
              \/ ThreeIdleScrolls(scroll.obs, LastPass(scroll))

\* no pass before the k-th met a condition that ends the loop
NoStopBefore(s, k) ==
    \A j \in 1..(k - 1) :
        /\ ~TimedOutAt(s, j)
        /\ ~ReachedAt(s, j)
        /\ ~StalledAt(s.obs, j)
        /\ j < ScrollCap(s.unlimited)

ScrollStopsWhereItShould ==
    /\ scroll.pc \in {"loop", "stopped"} =>
          /\ scroll.scroll_attempts <= ScrollCap(scroll.unlimited)
          /\ NoStopBefore(scroll, LastPass(scroll))
    /\ scroll.pc = "loop" =>
          /\ scroll.scroll_attempts < ScrollCap(scroll.unlimited)
          /\ NoStopBefore(scroll, LastPass(scroll) + 1)
    /\ scroll.pc = "stopped" =>
          \/ TimedOutAt(scroll, LastPass(scroll))
          \/ /\ Len(scroll.obs) = LastPass(scroll)
             /\ \/ ReachedAt(scroll, LastPass(scroll))
                \/ StalledAt(scroll.obs, LastPass(scroll))
                \/ LastPass(scroll) = ScrollCap(scroll.unlimited)

\* C22 (amended): the loop always ends, after at most max_scroll_attempts
\* passes (100 without max_results, 15 with), and it stops exactly at the
\* first pass at which the clock is past the timeout, max_results is reached,
\* the count has equalled the count of the pass before (0 for the first pass)
\* three passes in a row, or the passes are used up.
C22_StopsAtFirstOfFour ==
    /\ []ScrollStopsWhereItShould
    /\ [][scroll.pc = "loop" =>
             \/ scroll'.pc # "loop"
             \/ scroll'.scroll_attempts = scroll.scroll_attempts + 1]_vars
    /\ <>(scroll.pc # "loop")

\* the cards kept arriving in time and the passes ran out
C22_Witness ==
    /\ scroll.pc = "stopped"
    /\ scroll.unlimited
    /\ scroll.scroll_attempts = ScrollCapUnlimited
    /\ scroll.elapsed <= SCROLL_TIMEOUT_SECONDS
    /\ ~StalledAt(scroll.obs, Len(scroll.obs))

\* ---------------------------------------------------------------------------
\* variant_to_platform_ad: format, thumbnail_url and preview_url of a variant
\* ---------------------------------------------------------------------------

\* URL pieces: the five shapes _extract_youtube_video_id looks for, ...
YtImg == "https://i.ytimg.com/vi/"
YtWatch == "https://www.youtube.com/watch?v="
YtEmbed == "https://www.youtube.com/embed/"
YtEmbedUpper == "https://www.YouTube.com/embed/"
YouTuBe == "https://youtu.be/"
VideoIdParam == "?video_id="
\* ... a player URL, a frame that is no player, a synthetic text-ad id
VerticalPlayer == "https://googleads.g.doubleclick.net/youtube_vertical_player_media"
PlainFrame == "https://cdn.acme.com/frame.html"
TextAdPrefix == "text_ad:"

\* pieces matching [a-zA-Z0-9_-]{11}, and one that is too short to
VideoIds == {"dQw4w9WgXcQ", "a_b-c123456"}
ShortId == "dQw4"

\* str.lower() of a URL piece
LowerPiece(t) == IF t = YtEmbedUpper THEN YtEmbed ELSE t

\* "keyword in lower_url" for the keywords youtube.com, youtu.be, ytimg.com,
\* youtube_vertical_player, youtube_player, video_player
HasVideoKeyword(url) ==
    \E i \in DOMAIN url : LowerPiece(url[i]) \in {YtImg, YtWatch, YtEmbed, YouTuBe, VerticalPlayer}

\* re.search(pattern + ([a-zA-Z0-9_-]{11}), url): the id after the first place
\* the pattern is followed by one, NULL when there is none
SearchId(url, pattern) ==
    LET hits == {i \in DOMAIN url : url[i] = pattern /\ i + 1 \in DOMAIN url
                                    /\ url[i + 1] \in VideoIds}
    IN  IF hits = {} THEN NULL
        ELSE url[(CHOOSE i \in hits : \A j \in hits : i <= j) + 1]

\* the patterns in the order _extract_youtube_video_id tries them
YtPatterns == <<YtImg, YtWatch, YtEmbed, YouTuBe, VideoIdParam>>

RECURSIVE FirstPatternId(_, _)
FirstPatternId(url, k) ==
    IF k > Len(YtPatterns) THEN NULL
    ELSE IF SearchId(url, YtPatterns[k]) # NULL THEN SearchId(url, YtPatterns[k])
    ELSE FirstPatternId(url, k + 1)

\* None and "" are both falsy
Falsy(text) == text = <<>> \/ text = NullText

ExtractYoutubeVideoId(url) == IF Falsy(url) THEN NULL ELSE FirstPatternId(url, 1)

\* the video_id variant_to_platform_ad works with: the one the variant
\* carries, else the first one its content_url, thumbnail_url, video_url yield
VideoIdOf(variant) ==
    IF variant.youtube_video_id \notin {NULL, ""} THEN variant.youtube_video_id
    ELSE IF ExtractYoutubeVideoId(variant.content_url) # NULL
    THEN ExtractYoutubeVideoId(variant.content_url)
    ELSE IF ExtractYoutubeVideoId(variant.thumbnail_url) # NULL
    THEN ExtractYoutubeVideoId(variant.thumbnail_url)
    ELSE ExtractYoutubeVideoId(variant.video_url)

IsVideoVariant(variant) == variant.is_video \/ HasVideoKeyword(variant.content_url)

Maxres(video_id) == <<YtImg, video_id, "/maxresdefault.jpg">>
WatchUrl(video_id) == <<YtWatch, video_id>>

\* "x or y or fallback" over texts
OrElse(x, y, fallback) == IF ~Falsy(x) THEN x ELSE IF ~Falsy(y) THEN y ELSE fallback

StartsWithTextAd(url) == url # <<>> /\ url[1] = TextAdPrefix

\* variant_to_platform_ad with the video branch taking the URLs of the variant
VariantMediaUncanonical(variant) ==
    IF variant.is_text
    THEN [format |-> "text",
          thumbnail_url |-> IF ~Falsy(variant.content_url) /\ ~StartsWithTextAd(variant.content_url)
                            THEN variant.content_url ELSE <<>>,
          preview_url |-> NullText]
    ELSE IF IsVideoVariant(variant)
    THEN [format |-> "video",
          thumbnail_url |-> OrElse(variant.thumbnail_url, variant.content_url, <<>>),
          preview_url |-> OrElse(variant.video_url, variant.content_url, NullText)]
    ELSE [format |-> "image",
          thumbnail_url |-> OrElse(variant.content_url, <<>>, <<>>),
          preview_url |-> OrElse(variant.content_url, <<>>, NullText)]

\* format, thumbnail_url and preview_url of the PlatformAd variant_to_platform_ad returns
VariantMedia(variant) ==
    IF variant.is_text
    THEN [format |-> "text",
          thumbnail_url |-> IF ~Falsy(variant.content_url) /\ ~StartsWithTextAd(variant.content_url)
                            THEN variant.content_url ELSE <<>>,
          preview_url |-> NullText]
    ELSE IF IsVideoVariant(variant) /\ VideoIdOf(variant) # NULL
    THEN [format |-> "video",
          thumbnail_url |-> Maxres(VideoIdOf(variant)),
          preview_url |-> WatchUrl(VideoIdOf(variant))]
    ELSE IF IsVideoVariant(variant)
    THEN [format |-> "video",
          thumbnail_url |-> OrElse(variant.thumbnail_url, variant.content_url, <<>>),
          preview_url |-> OrElse(variant.video_url, variant.content_url, NullText)]
    ELSE [format |-> "image",
          thumbnail_url |-> OrElse(variant.content_url, <<>>, <<>>),
          preview_url |-> OrElse(variant.content_url, <<>>, NullText)]

\* the variants the two extractors and other callers can hand over
ContentUrls ==
    {<<>>,
     <<"https://tpc.googlesyndication.com/simgad/", "1">>,
     <<YtEmbed, "dQw4w9WgXcQ">>,
     <<YtEmbedUpper, "dQw4w9WgXcQ">>,
     <<YtWatch, ShortId>>,
     <<VerticalPlayer, VideoIdParam, "a_b-c123456">>,
     <<PlainFrame, VideoIdParam, "a_b-c123456">>,
     <<TextAdPrefix, "h1">>}
ThumbnailUrls == {NullText, <<YtImg, "a_b-c123456", "/hqdefault.jpg">>}
VideoUrls == {NullText, <<YtEmbed, "dQw4w9WgXcQ">>}
CarriedIds == {NULL, "", "dQw4w9WgXcQ"}

VariantInputs ==
    [is_text : BOOLEAN, is_video : BOOLEAN, youtube_video_id : CarriedIds,
     content_url : ContentUrls, thumbnail_url : ThumbnailUrls, video_url : VideoUrls]

InitVariant ==
    /\ CoreAtRest
    /\ scroll = NoScroll /\ batch_jobs = NoBatchJobs /\ sessions = NoSessions /\ cache = NoCache
    /\ cb = NoCb
    /\ \E variant \in VariantInputs : conv = [pc |-> "given", variant |-> variant]

Convert ==
    /\ conv.pc = "given"
    /\ conv' = [pc |-> "done", variant |-> conv.variant, ad |-> VariantMedia(conv.variant)]
    /\ UNCHANGED <<coreVars, scroll, batch_jobs, sessions, cache, cb>>

NextVariant == Convert

SpecVariant == InitVariant /\ [][NextVariant]_vars

\* C23 as stated: every variant that carries or yields a YouTube video id V
\* becomes an ad with thumbnail_url https://i.ytimg.com/vi/V/maxresdefault.jpg
\* and preview_url https://www.youtube.com/watch?v=V, whatever its is_video
\* and is_text flags are.
C23_EveryVariantCanonical ==
    (conv.pc = "done" /\ VideoIdOf(conv.variant) # NULL) =>
        /\ conv.ad.thumbnail_url = Maxres(VideoIdOf(conv.variant))
        /\ conv.ad.preview_url = WatchUrl(VideoIdOf(conv.variant))

\* C23 (amended): every variant that is not a text variant, that is a video
\* (is_video set, or a player keyword in its content_url) and that carries or
\* yields a YouTube video id V becomes a video ad with exactly the maxresdefault
\* thumbnail of V and the watch URL of V.
C23_VideoVariantCanonical ==
    (/\ conv.pc = "done"
     /\ ~conv.variant.is_text
     /\ IsVideoVariant(conv.variant)
     /\ VideoIdOf(conv.variant) # NULL) =>
        /\ conv.ad.format = "video"
        /\ conv.ad.thumbnail_url = Maxres(VideoIdOf(conv.variant))
        /\ conv.ad.preview_url = WatchUrl(VideoIdOf(conv.variant))

\* a player variant whose id comes out of the video_id parameter of its content_url
C23_Witness ==
    /\ conv.pc = "done"
    /\ ~conv.variant.is_text /\ ~conv.variant.is_video
    /\ conv.variant.youtube_video_id = NULL
    /\ conv.variant.content_url = <<VerticalPlayer, VideoIdParam, "a_b-c123456">>
    /\ conv.ad.preview_url = <<YtWatch, "a_b-c123456">>

\* ---------------------------------------------------------------------------
\* SpecCallback: the batch callback of scrape_source, one call at a time
\* ---------------------------------------------------------------------------

MaxCallbacks == 3

\* two brands that follow the same advertiser, and a Meta page of the first
CallbackSources ==
    <<[id |-> "src1", brand_id |-> "b1", platform |-> "google", source_type |-> "domain",
       source_value |-> <<"acme.", "com">>, is_active |-> TRUE],
      [id |-> "src2", brand_id |-> "b1", platform |-> "meta", source_type |-> "page_id",
       source_value |-> <<"12345">>, is_active |-> TRUE],
      [id |-> "src5", brand_id |-> "b2", platform |-> "google", source_type |-> "domain",
       source_value |-> <<"www.", "acme.", "com">>, is_active |-> TRUE]>>

\* an ad of the Google scraper: domain from its landing URL, "" without one
CallbackAd(sid, platform, landing_url) ==
    [RunAd(sid, platform) EXCEPT
        !.landing_page_url = IF landing_url = <<>> THEN NullText ELSE landing_url,
        !.domain = IF landing_url = <<>> THEN <<>> ELSE RegexDomain(landing_url)]

\* the batches a scraper hands to the callback: at most BATCH_SIZE ads, of the
\* Google scraper with distinct source_ids (seen_source_ids), of the Meta
\* scraper all without domain
CallbackBatches(platform) ==
    LET pool == IF platform = "google"
                THEN {CallbackAd(sid, platform, l) : sid \in {"s1", "s2"}, l \in {<<>>, ShopUrl}}
                ELSE {RunAd(sid, platform) : sid \in {"s1", "s2"}}
    IN  {b \in SeqsUpTo(pool, BATCH_SIZE) :
            /\ b # <<>>
            /\ platform = "google" =>
                  \A i, j \in DOMAIN b : i # j => b[i].source_id # b[j].source_id}

\* rows of tbl with the key of ad
RowsOf(tbl, ad) == {j \in DOMAIN tbl : SameKey(tbl[j], ad)}

InitCallback ==
    /\ ads = <<>>
    /\ activity_logs = <<>>
    /\ daily_brand_stats = <<>>
    /\ now = 1
    /\ fed = 0 /\ lastBatch = <<>> /\ lastBrand = NULL /\ call1 = NONE /\ call2 = NONE
    /\ brands = BrandRows
    /\ brand_sources = CallbackSources
    /\ monitored_domains = <<>>
    /\ RunAtRest
    /\ ScrapeAtRest
    /\ SchedAtRest
    /\ scroll = NoScroll /\ conv = NoConv /\ batch_jobs = NoBatchJobs
    /\ sessions = NoSessions /\ cache = NoCache
    /\ cb = [pc |-> "ready", calls |-> 0]

\* on_batch(ads) of the scrape_source call for target src
OnBatchCall ==
    /\ cb.pc \in {"ready", "returned", "raised"}
    /\ cb.calls < MaxCallbacks
    /\ \E src \in JoinedSources(brands, brand_sources) :
         \E batch \in CallbackBatches(src.platform) :
            LET r == OnBatch(ads, batch, src.source_value, src.brand_id, TRUE, now)
            IN  /\ ads' = r.tbl
                /\ now' = now + 1
                /\ activity_logs' = activity_logs \o r.logs
                /\ cb' = [pc |-> IF r.raised THEN "raised" ELSE "returned",
                          calls |-> cb.calls + 1, src |-> src, batch |-> batch,
                          moved |-> Cardinality({k \in DOMAIN batch :
                                       \E j \in RowsOf(ads, batch[k]) :
                                          ads[j].brand_id # src.brand_id})]
    /\ UNCHANGED <<daily_brand_stats, storeVars, configVars, runVars, scrapeVars, schedVars,
                   scroll, conv, batch_jobs, sessions, cache>>

NextCallback == OnBatchCall

SpecCallback == InitCallback /\ [][NextCallback]_vars

RECURSIVE SumScraped(_)
SumScraped(d) == IF d = <<>> THEN 0 ELSE Head(d).val.ads_scraped + SumScraped(Tail(d))
RECURSIVE SumNew(_)
SumNew(d) == IF d = <<>> THEN 0 ELSE Head(d).val.ads_new + SumNew(Tail(d))
RECURSIVE SumUpdated(_)
SumUpdated(d) == IF d = <<>> THEN 0 ELSE Head(d).val.ads_updated + SumUpdated(Tail(d))

WithError(d) == {i \in DOMAIN d : d[i].val.error # NULL}

\* C25: in every batch_runs row as update_batch_run writes it after a target
\* and at the end of the run, total_ads_scraped, total_ads_new and
\* total_ads_updated are the sums of ads_scraped, ads_new and ads_updated over
\* the entries of domain_results of the same row, and errors has as many
\* entries as domain_results has entries with an error.
C25_TotalsMatchResults ==
    \A k \in DOMAIN batch_runs :
        /\ batch_runs[k].total_ads_scraped = SumScraped(batch_runs[k].domain_results)
        /\ batch_runs[k].total_ads_new = SumNew(batch_runs[k].domain_results)
        /\ batch_runs[k].total_ads_updated = SumUpdated(batch_runs[k].domain_results)
        /\ Len(batch_runs[k].errors) = Cardinality(WithError(batch_runs[k].domain_results))

\* a finished run of three targets, one failed, two that stored ads
C25_Witness ==
    /\ RunReturned
    /\ Len(batch_runs[summary.batch_run_id].domain_results) = 3
    /\ Cardinality(WithError(batch_runs[summary.batch_run_id].domain_results)) = 1
    /\ batch_runs[summary.batch_run_id].total_ads_scraped >= 2
    /\ batch_runs[summary.batch_run_id].total_ads_updated >= 1

\* ---------------------------------------------------------------------------
\* The counters of a run against the rows its callbacks wrote
\* ---------------------------------------------------------------------------

\* a step that is one pass of a target loop of the run under way
TargetStep == pc = "targets" /\ run.idx <= Len(run.targets) /\ run'.idx = run.idx + 1

\* rows the step inserted, and rows it wrote that were there before
RowsInserted == Len(ads') - Len(ads)
RowsUpdated == Cardinality({j \in DOMAIN ads : ads'[j] # ads[j]})

\* the entry of domain_results the step wrote for its target
EntryWritten ==
    DictGet(batch_runs'[run.run_id].domain_results, Label(run.branch, run.targets[run.idx]))

CountsMatchRows ==
    /\ EntryWritten.ads_new = RowsInserted
    /\ EntryWritten.ads_updated = RowsUpdated
    /\ batch_runs'[run.run_id].total_ads_new
         = batch_runs[run.run_id].total_ads_new + RowsInserted
    /\ batch_runs'[run.run_id].total_ads_updated
         = batch_runs[run.run_id].total_ads_updated + RowsUpdated

\* C26: the ads_new / ads_updated recorded for every target, and with them
\* total_ads_new / total_ads_updated of the run, are the numbers of ads rows
\* the target's batch callbacks inserted and updated, whether the scraper
\* returned or raised after some batches had been upserted.
C26_CountsAreRowsWritten == [][TargetStep => CountsMatchRows]_vars

\* what holds: the counts of a target whose scrape returned are the rows written
C26_ReturnedTargetsCounted ==
    [][(TargetStep /\ EntryWritten.error = NULL) => CountsMatchRows]_vars

\* a run ended whose table holds a row no counter of any run accounts for
C26_Witness ==
    /\ RunReturned
    /\ Len(batch_runs) = 1
    /\ batch_runs[1].total_ads_new < Len(ads)
    /\ Len(batch_runs[1].errors) > 0

\* ---------------------------------------------------------------------------
\* Targets no scraper exists for
\* ---------------------------------------------------------------------------

\* targets of the run that returned for which scrape_source called no scraper
Undispatched == {i \in DOMAIN outcomes : outcomes[i].scraper = "none"}

\* C27: every target of a run either has the scraper of its (platform,
\* source_type) invoked or is reported with an error in its result; none is
\* recorded as an error-free result without a scraper having run.
C27_ScrapedOrReported ==
    RunReturned =>
        \A i \in Undispatched :
            DictGet(batch_runs[summary.batch_run_id].domain_results, outcomes[i].label).error
                # NULL

\* a run that returned with a target no scraper was called for
C27_Witness ==
    /\ RunReturned
    /\ Undispatched # {}
    /\ batch_runs[summary.batch_run_id].errors = <<>>

\* ---------------------------------------------------------------------------
\* SpecApi: POST /batch/run and its background task _run_batch_job
\* ---------------------------------------------------------------------------

MaxJobs == 3

\* the entry api_run_batch registers; task is where its background task stands
JobEntry(mode) ==
    [status |-> "started", mode |-> mode, task |-> "queued", run_id |-> 0, result |-> FALSE]

Terminal(entry) == entry.status \in {"completed", "failed"}

\* the entry of the i-th job registered; no such key before its registration
NoEntry == [status |-> "absent", mode |-> "none", task |-> "none", run_id |-> 0, result |-> FALSE]
EntryAt(i) ==
    IF batch_jobs.pc = "serving" /\ i \in DOMAIN batch_jobs.entries
    THEN batch_jobs.entries[i] ELSE NoEntry

InitApi ==
    /\ CoreAtRest
    /\ scroll = NoScroll /\ conv = NoConv /\ sessions = NoSessions /\ cache = NoCache
    /\ cb = NoCb
    /\ batch_jobs = [pc |-> "serving", entries |-> <<>>]

apiRest == <<ads, activity_logs, daily_brand_stats, storeVars, configVars, runs, req, pc, run,
             outcomes, scraperCalls, summary, scrapeVars, schedVars, scroll, conv, sessions,
             cache, cb>>

\* POST /batch/run without a domain: the entry is registered and the task queued
ApiRunBatch ==
    /\ batch_jobs.pc = "serving"
    /\ Len(batch_jobs.entries) < MaxJobs
    /\ \E mode \in {"full", "incremental"} :
         batch_jobs' = [batch_jobs EXCEPT !.entries = Append(@, JobEntry(mode))]
    /\ UNCHANGED <<batch_runs, now, apiRest>>

\* _run_batch_job starts on a worker thread
RunBatchJobBegin(i) ==
    /\ EntryAt(i).task = "queued"
    /\ batch_jobs' = [batch_jobs EXCEPT !.entries[i].status = "running",
                                        !.entries[i].task = "running"]
    /\ UNCHANGED <<batch_runs, now, apiRest>>

\* run_daily_batch of the task, with no source and no domain configured, up
\* to its batch_runs row: create_batch_run and the total_domains update
RunBatchJobCreate(i) ==
    /\ EntryAt(i).task = "running"
    /\ EntryAt(i).run_id = 0
    /\ batch_runs' = UpdateBatchRun(Append(batch_runs, CreateBatchRunRow("manual", now)),
                                    Len(batch_runs) + 1, [total_domains |-> 0])
    /\ now' = now + 1
    /\ batch_jobs' = [batch_jobs EXCEPT !.entries[i].run_id = Len(batch_runs) + 1]
    /\ UNCHANGED apiRest

\* run_daily_batch writes the final update and returns; the task stores the result
RunBatchJobReturn(i) ==
    /\ EntryAt(i).task = "running"
    /\ EntryAt(i).run_id # 0
    /\ batch_runs' = UpdateBatchRun(batch_runs, EntryAt(i).run_id,
                        [status |-> FinalStatus(<<>>), finished_at |-> now,
                         total_ads_scraped |-> 0, total_ads_new |-> 0, total_ads_updated |-> 0,
                         domain_results |-> <<>>, errors |-> <<>>])
    /\ now' = now + 1
    /\ batch_jobs' = [batch_jobs EXCEPT !.entries[i].status = "completed",
                                        !.entries[i].result = TRUE,
                                        !.entries[i].task = "ended"]
    /\ UNCHANGED apiRest

\* run_daily_batch raises (a query or a write of it fails): the exception
\* leaves _run_batch_job, which catches nothing, and the task ends
RunBatchJobRaise(i) ==
    /\ EntryAt(i).task = "running"
    /\ batch_jobs' = [batch_jobs EXCEPT !.entries[i].task = "ended"]
    /\ UNCHANGED <<batch_runs, now, apiRest>>

RunBatchJobStep(i) ==
    \/ RunBatchJobBegin(i)
    \/ RunBatchJobCreate(i)
    \/ RunBatchJobReturn(i)
    \/ RunBatchJobRaise(i)

NextApi ==
    \/ ApiRunBatch
    \/ \E i \in 1..MaxJobs : RunBatchJobStep(i)

\* a task that is queued or running goes on: the thread pool runs it
SpecApi ==
    /\ InitApi
    /\ [][NextApi]_vars
    /\ \A i \in 1..MaxJobs : WF_vars(RunBatchJobStep(i))

\* C28: every job registered by POST /batch/run eventually has an entry in a
\* terminal state, completed or failed, also when run_daily_batch raises.
C28_JobEndsTerminal ==
    \A i \in 1..MaxJobs : [](EntryAt(i).status # "absent" => <>Terminal(EntryAt(i)))

\* what holds: the task of every job ends, and whenever it has ended the entry
\* is completed if run_daily_batch returned and still running if it raised
C28_TaskEnds ==
    /\ \A i \in 1..MaxJobs : [](EntryAt(i).status # "absent" => <>(EntryAt(i).task = "ended"))
    /\ [](\A i \in 1..MaxJobs :
             EntryAt(i).task = "ended" =>
                EntryAt(i).status = (IF EntryAt(i).result THEN "completed" ELSE "running"))

\* a job whose task has ended and whose entry says running, its batch_runs row too
C28_Witness ==
    \E i \in 1..MaxJobs :
        /\ EntryAt(i).task = "ended"
        /\ EntryAt(i).status = "running"
        /\ EntryAt(i).run_id # 0
        /\ batch_runs[EntryAt(i).run_id].status = "running"

\* ---------------------------------------------------------------------------
\* SpecSearch: search_google_ads of platforms/google.py and its cache
\* ---------------------------------------------------------------------------

CACHE_TTL == 2       \* _CACHE_TTL = 300 seconds, in ticks of the clock
MaxClock == 4
MaxSearches == 3

\* the arguments in use: one keyword, no creative_format, limit 1 or 2
SearchFormats == {NULL}
SearchLimits == {1, 2}

\* cache_key = f"google:{keyword}:{format}:{limit}"
CacheKey(keyword, format, limit) == <<"google", keyword, format, limit>>
CacheKeys == {CacheKey("acme", f, l) : f \in SearchFormats, l \in SearchLimits}

\* ad_creatives of a SerpAPI response
RawImage == [ad_creative_id |-> "c1", format |-> "image"]
RawText == [ad_creative_id |-> "c2", format |-> "Text"]
RawVideo == [ad_creative_id |-> "c3", format |-> "video"]
RawOther == [ad_creative_id |-> "c4", format |-> "carousel"]
Responses ==
    {<<>>, <<RawImage>>, <<RawText>>, <<RawImage, RawText>>, <<RawText, RawVideo>>,
     <<RawOther, RawImage>>}

\* raw.get("format", "image").lower(), anything unknown taken as image
AdFormat(raw) ==
    IF raw.format \in {"Text", "text"} THEN "text"
    ELSE IF raw.format \in {"image", "video"} THEN raw.format
    ELSE "image"

\* _normalize_google_response
NormalizeGoogleResponse(raw) ==
    [source_id |-> raw.ad_creative_id, platform |-> "google", format |-> AdFormat(raw),
     media_type |-> IF AdFormat(raw) = "video" THEN "video" ELSE "image"]

NormalizeAll(data) == [i \in DOMAIN data |-> NormalizeGoogleResponse(data[i])]

WithoutText(results) == SelectSeq(results, LAMBDA ad : ad.format # "text")

NoCached == [ts |-> 0, data |-> <<>>, present |-> FALSE]

\* _get_cached: the data of a present entry younger than the TTL
Fresh(entry, clock) == entry.present /\ clock - entry.ts < CACHE_TTL

InitSearch ==
    /\ CoreAtRest
    /\ scroll = NoScroll /\ conv = NoConv /\ batch_jobs = NoBatchJobs /\ sessions = NoSessions
    /\ cb = NoCb
    /\ cache = [pc |-> "up", clock |-> 0, calls |-> 0,
                store |-> [k \in CacheKeys |-> NoCached],
                filled |-> [k \in CacheKeys |-> <<>>],
                call |-> [kind |-> "none", key |-> CacheKey("acme", NULL, 1), result |-> <<>>]]

searchRest == <<coreVars, scroll, conv, batch_jobs, sessions, cb>>

\* search_google_ads answered from the cache
SearchHit ==
    /\ cache.pc = "up"
    /\ cache.calls < MaxSearches
    /\ \E key \in CacheKeys :
         /\ Fresh(cache.store[key], cache.clock)
         /\ cache' = [cache EXCEPT
                         !.calls = @ + 1,
                         !.call = [kind |-> "hit", key |-> key,
                                   result |-> NormalizeAll(cache.store[key].data)]]
    /\ UNCHANGED searchRest

\* search_google_ads with no fresh entry: an expired entry is deleted, SerpAPI
\* is asked, the first limit creatives are cached and returned without the text ads
SearchMiss ==
    /\ cache.pc = "up"
    /\ cache.calls < MaxSearches
    /\ \E key \in CacheKeys, response \in Responses :
         /\ ~Fresh(cache.store[key], cache.clock)
         /\ cache' = [cache EXCEPT
                         !.calls = @ + 1,
                         !.store[key] = [ts |-> cache.clock, data |-> Take(response, key[4]),
                                         present |-> TRUE],
                         !.filled[key] = WithoutText(NormalizeAll(Take(response, key[4]))),
                         !.call = [kind |-> "miss", key |-> key,
                                   result |-> WithoutText(NormalizeAll(Take(response, key[4])))]]
    /\ UNCHANGED searchRest

\* search_google_ads with no fresh entry and a request that fails:
\* raise_for_status raises after _get_cached deleted an expired entry
SearchFails ==
    /\ cache.pc = "up"
    /\ cache.calls < MaxSearches
    /\ \E key \in CacheKeys :
         /\ ~Fresh(cache.store[key], cache.clock)
         /\ cache' = [cache EXCEPT !.calls = @ + 1,
                                   !.store[key] = NoCached,
                                   !.call = [kind |-> "raised", key |-> key, result |-> <<>>]]
    /\ UNCHANGED searchRest

\* time.time() moves on
ClockTick ==
    /\ cache.pc = "up"
    /\ cache.clock < MaxClock
    /\ cache' = [cache EXCEPT !.clock = @ + 1]
    /\ UNCHANGED searchRest

NextSearch == SearchHit \/ SearchMiss \/ SearchFails \/ ClockTick

SpecSearch == InitSearch /\ [][NextSearch]_vars

HasText(results) == \E i \in DOMAIN results : results[i].format = "text"

\* C30: for the same (keyword, format, limit) a cache hit returns the list
\* the miss that populated the entry returned, and neither returns an ad of
\* format text.
C30_HitEqualsMiss ==
    /\ cache.pc = "up" /\ cache.call.kind = "hit" =>
          /\ cache.call.result = cache.filled[cache.call.key]
          /\ ~HasText(cache.call.result)
    /\ cache.pc = "up" /\ cache.call.kind = "miss" => ~HasText(cache.call.result)

\* what holds: a miss returns no text ad, and a hit returns every cached
\* creative normalised, which is the miss's list plus the text ads it left out
C30_HitReturnsCached ==
    /\ cache.pc = "up" /\ cache.call.kind = "miss" => ~HasText(cache.call.result)
    /\ cache.pc = "up" /\ cache.call.kind = "hit" =>
          /\ cache.call.result = NormalizeAll(cache.store[cache.call.key].data)
          /\ WithoutText(cache.call.result) = cache.filled[cache.call.key]

\* a hit that returned a text ad
C30_Witness ==
    /\ cache.pc = "up"
    /\ cache.call.kind = "hit"
    /\ HasText(cache.call.result)
    /\ Len(cache.filled[cache.call.key]) = 1

\* ---------------------------------------------------------------------------
\* SpecRace: two upsert_ads_batch calls of concurrent runs, statement by
\* statement, on PostgreSQL at READ COMMITTED
\* ---------------------------------------------------------------------------

Callers == {"A", "B"}
Other(c) == IF c = "A" THEN "B" ELSE "A"

\* the batches of the two calls: ads of the same listing, both with s1
RaceBatches ==
    {b \in SeqsUpTo({RunAd(sid, "google") : sid \in {"s1", "s2"}}, BATCH_SIZE) :
        /\ \E i \in DOMAIN b : b[i].source_id = "s1"
        /\ \A i, j \in DOMAIN b : i # j => b[i].source_id # b[j].source_id}

\* a call inside "with get_db()": its batch, the ads executed so far and what
\* RETURNING (xmax = 0) gave for each
Session(batch, brand_id) ==
    [batch |-> batch, brand_id |-> brand_id, done |-> 0, state |-> "active", is_new |-> <<>>]

InitRace ==
    /\ CoreAtRest
    /\ scroll = NoScroll /\ conv = NoConv /\ batch_jobs = NoBatchJobs /\ cache = NoCache
    /\ cb = NoCb
    /\ \E ba \in RaceBatches, bb \in RaceBatches, brand \in ExistingBrands :
         sessions = [pc |-> "open", A |-> Session(ba, "b1"), B |-> Session(bb, brand)]

raceRest == <<activity_logs, daily_brand_stats, storeVars, configVars, runVars, scrapeVars,
              schedVars, scroll, conv, batch_jobs, cache, cb>>

\* the transaction of c is open
InProgress(c) == sessions.pc = "open" /\ sessions[c].state \in {"active", "waiting"}

\* the ad the next statement of c is for
NextAd(c) == sessions[c].batch[sessions[c].done + 1]

\* c has written, and not yet committed, a row with the key of ad
Wrote(c, ad) ==
    \E i \in 1..sessions[c].done : SameKey(sessions[c].batch[i], ad)

\* the statement for ad has to wait for the transaction of the other caller:
\* that one inserted or updated the row and has neither committed nor aborted
MustWait(c, ad) == InProgress(Other(c)) /\ Wrote(Other(c), ad)

\* xmax = 0: the statement inserted, no committed row and no row of its own
\* transaction had the key
ReturnsNew(c, ad) == ConflictRows(ads, ad) = {} /\ ~Wrote(c, ad)

\* one cur.execute of the call of c: it blocks on a row the other
\* transaction holds, otherwise it inserts or updates and returns is_new
Execute(c) ==
    /\ InProgress(c)
    /\ sessions[c].done < Len(sessions[c].batch)
    /\ IF MustWait(c, NextAd(c))
       THEN /\ sessions[c].state = "active"
            /\ sessions' = [sessions EXCEPT ![c].state = "waiting"]
       ELSE sessions' = [sessions EXCEPT
                            ![c].state = "active",
                            ![c].done = @ + 1,
                            ![c].is_new = Append(@, ReturnsNew(c, NextAd(c)))]
    /\ UNCHANGED <<ads, now, raceRest>>

\* the with block of c ends: conn.commit(), and the call returns its counts
Commit(c) ==
    /\ InProgress(c)
    /\ sessions[c].state = "active"
    /\ sessions[c].done = Len(sessions[c].batch)
    /\ ads' = UpsertLoop(ads, sessions[c].batch, sessions[c].brand_id, now, 0, 0).tbl
    /\ now' = now + 1
    /\ sessions' = [sessions EXCEPT ![c].state = "committed"]
    /\ UNCHANGED raceRest

\* both transactions wait for each other: the deadlock detector aborts the
\* statement of one of them, get_db rolls back and the call raises
DeadlockAbort(c) ==
    /\ sessions.pc = "open"
    /\ sessions[c].state = "waiting"
    /\ sessions[Other(c)].state = "waiting"
    /\ sessions' = [sessions EXCEPT ![c].state = "aborted"]
    /\ UNCHANGED <<ads, now, raceRest>>

NextRace == \E c \in Callers : Execute(c) \/ Commit(c) \/ DeadlockAbort(c)

SpecRace == InitRace /\ [][NextRace]_vars

RaceOver == sessions.pc = "open" /\ ~InProgress("A") /\ ~InProgress("B")

\* the call of c returned with the ad counted as new (TRUE) or updated (FALSE)
Counted(c, sid, new) ==
    /\ sessions[c].state = "committed"
    /\ \E i \in DOMAIN sessions[c].batch :
          sessions[c].batch[i].source_id = sid /\ sessions[c].is_new[i] = new

RowsWith(sid) == {j \in DOMAIN ads : ads[j].source_id = sid /\ ads[j].platform = "google"}

\* C29: two concurrent calls upsert the same key not yet stored: in every
\* interleaving there is exactly one row of the key, one of the two calls
\* counts it as new and the other as updated.
C29_OneNewOneUpdated ==
    RaceOver =>
        /\ Cardinality(RowsWith("s1")) = 1
        /\ \E c \in Callers : Counted(c, "s1", TRUE) /\ Counted(Other(c), "s1", FALSE)

\* what holds: never two rows of a key; when both calls commit one counts the
\* key as new and the other as updated; when one is aborted by the deadlock
\* detector the other commits and counts every key of its batch as new
C29_CommittedCallsAgree ==
    /\ \A sid \in {"s1", "s2"} : Cardinality(RowsWith(sid)) <= 1
    /\ (RaceOver /\ \A c \in Callers : sessions[c].state = "committed") =>
          /\ Cardinality(RowsWith("s1")) = 1
          /\ \E c \in Callers : Counted(c, "s1", TRUE) /\ Counted(Other(c), "s1", FALSE)
    /\ RaceOver => \A c \in Callers :
          sessions[c].state = "aborted" =>
              /\ sessions[Other(c)].state = "committed"
              /\ \A i \in DOMAIN sessions[Other(c)].is_new : sessions[Other(c)].is_new[i]

\* both calls committed after one of them had waited for the other
C29_Witness ==
    /\ RaceOver
    /\ sessions.A.state = "committed" /\ sessions.B.state = "committed"
    /\ Counted("B", "s1", TRUE) /\ Counted("A", "s1", FALSE)
    /\ \E j \in RowsWith("s1") : ads[j].brand_id = "b1" /\ ads[j].created_at < ads[j].updated_at

\* one call was the victim of a deadlock
C29_DeadlockReached ==
    /\ RaceOver
    /\ sessions.A.state = "aborted"
    /\ sessions.B.state = "committed"
    /\ Cardinality(RowsWith("s1")) = 1

====
